---- MODULE Spec2Model ----
(***************************************************************************)
(* A model of the HQL language server's analysis core: the document        *)
(* controller (HQLDocument), its position index, the AST index, the        *)
(* symbol-table builder, the parse cache and the server's document         *)
(* handlers.                                                               *)
(*                                                                         *)
(* Texts are sequences of one-character strings; offsets, lines and        *)
(* characters are 0-based as in the code, sequences are 1-based.           *)
(***************************************************************************)
EXTENDS Integers, Sequences, FiniteSets, TLC

VARIABLES
    version,        \* HQLDocument.version
    content,        \* HQLDocument.content
    lineOffsets,    \* HQLDocument.lineOffsets (UndefinedOffsets until first use)
    dirty,          \* HQLDocument.dirty
    ast,            \* HQLDocument.ast (NullAst or Ast(node table))
    parseError,     \* HQLDocument.parseError
    symbolTable,    \* HQLDocument.symbolTable
    astIndex,       \* HQLDocument.astIndex
    parseCache,     \* parser.ts: parseCache
    now,            \* the value Date.now() returns
    server,         \* HQLServer and its DocumentManager, for one URI
    lastOp,         \* the last operation performed and what it returned
    hist            \* bookkeeping about the run so far (not program state)

vars == <<version, content, lineOffsets, dirty, ast, parseError, symbolTable,
          astIndex, parseCache, now, server, lastOp, hist>>

\* A value that may be undefined or null is a record with a flag, so that it
\* compares with the values it stands beside.
UndefinedOffsets == [defined |-> FALSE, table |-> <<>>]
Offsets(table) == [defined |-> TRUE, table |-> table]
NullAst == [null |-> TRUE, nodes |-> <<>>]
Ast(tbl) == [null |-> FALSE, nodes |-> tbl]

LF == "\n"
CR == "\r"

Min(a, b) == IF a < b THEN a ELSE b
Max(a, b) == IF a > b THEN a ELSE b

\* while (!Done(st)) st = Step(st), for the at most k rounds the loop takes.
\* The rounds are taken half by half, which gives the same state as taking
\* them one after the other.
RECURSIVE While(_, _, _, _)
While(Done(_), Step(_), k, st) ==
    IF k = 0 \/ Done(st) THEN st
    ELSE IF k = 1 THEN Step(st)
    ELSE While(Done, Step, k - k \div 2, While(Done, Step, k \div 2, st))

(***************************************************************************)
(* Position index of HQLDocument                                           *)
(***************************************************************************)

\* A round that takes \r\n for two terminators.
LineOffsetsStep_Mutant(text, st) ==
    [i |-> st.i + 1,
     isLineStart |-> text[st.i + 1] = CR \/ text[st.i + 1] = LF,
     result |-> IF st.isLineStart THEN Append(st.result, st.i) ELSE st.result]

\* One round of the loop of getLineOffsets.  st is [i, isLineStart, result],
\* i the 0-based loop index.
LineOffsetsStep(text, st) ==
    [i |-> IF text[st.i + 1] = CR /\ st.i + 1 < Len(text) /\ text[st.i + 2] = LF
           THEN st.i + 2 ELSE st.i + 1,
     isLineStart |-> text[st.i + 1] = CR \/ text[st.i + 1] = LF,
     result |-> IF st.isLineStart THEN Append(st.result, st.i) ELSE st.result]

\* The loop of getLineOffsets and what follows it.
LineOffsetsLoop(text, st) ==
    LET end == While(LAMBDA s : s.i >= Len(text),
                     LAMBDA s : LineOffsetsStep(text, s), Len(text), st)
    IN  IF end.isLineStart /\ Len(text) > 0 THEN Append(end.result, Len(text))
        ELSE end.result

ComputeLineOffsets(text) ==
    LineOffsetsLoop(text, [i |-> 0, isLineStart |-> TRUE, result |-> <<>>])

\* getLineOffsets: the cached table, computed when it is undefined.
GetLineOffsets(text, cached) ==
    IF cached.defined THEN cached ELSE Offsets(ComputeLineOffsets(text))

\* An offsetAt that does not limit the character by the next line's start.
OffsetAtWith_Mutant(text, offs, position) ==
    IF position.line >= Len(offs) THEN Len(text)
    ELSE IF position.line < 0 THEN 0
    ELSE offs[position.line + 1] + position.character

\* offsetAt, given the line-offset table.
OffsetAtWith(text, offs, position) ==
    IF position.line >= Len(offs) THEN Len(text)
    ELSE IF position.line < 0 THEN 0
    ELSE LET lineOffset == offs[position.line + 1]
             nextLineOffset == IF position.line + 1 < Len(offs)
                               THEN offs[position.line + 2]
                               ELSE Len(text)
         IN  Min(lineOffset + position.character, nextLineOffset)

\* The binary search of positionAt: returns low.
RECURSIVE PositionSearch(_, _, _, _)
PositionSearch(offs, offset, low, high) ==
    IF low < high
    THEN LET mid == (low + high) \div 2
         IN  IF offs[mid + 1] > offset
             THEN PositionSearch(offs, offset, low, mid)
             ELSE PositionSearch(offs, offset, mid + 1, high)
    ELSE low

\* positionAt, given the line-offset table.
PositionAtWith(text, offs, offset0) ==
    LET offset == Max(Min(offset0, Len(text)), 0)
    IN  IF Len(offs) = 0
        THEN [line |-> 0, character |-> offset]
        ELSE LET line == PositionSearch(offs, offset, 0, Len(offs)) - 1
             IN  [line |-> line, character |-> offset - offs[line + 1]]

(***************************************************************************)
(* AST nodes.  An AST is a node table: the sequence of its nodes in        *)
(* pre-order, a node's id being its index.  A node is a record             *)
(*   type       "symbol", "literal" or "list"                              *)
(*   name       the name of a symbol; for a literal, the text that         *)
(*              addPositionToNode looks it up by; <<>> for a list          *)
(*   kind       of a literal: "string", "number", "boolean" or "null"      *)
(*   elements   the ids of a list's elements, in order                     *)
(*   parent     the id of the enclosing list, 0 for a top-level form       *)
(*   position   NoRange, or the range <<start line, start character,       *)
(*              end line, end character>>                                  *)
(*   isArrayLiteral                                                        *)
(* A reference to a node object is its id together with the table; the id  *)
(* 0 stands for no node (null).                                            *)
(***************************************************************************)

Pos(l, c) == [line |-> l, character |-> c]
NoRange == <<>>
Range(sl, sc, el, ec) == <<sl, sc, el, ec>>
Start(range) == Pos(range[1], range[2])
End(range) == Pos(range[3], range[4])

Node(type, name, kind, parent, position) ==
    [type |-> type, name |-> name, kind |-> kind, elements |-> <<>>,
     parent |-> parent, position |-> position, isArrayLiteral |-> FALSE]

\* The top-level forms of a node table, in order.
TopLevel(tbl) == SelectSeq([i \in 1..Len(tbl) |-> i], LAMBDA i : tbl[i].parent = 0)

(***************************************************************************)
(* A JavaScript Map: a sequence of [key, value] entries in insertion       *)
(* order; set() on a key already present replaces the value in place.      *)
(***************************************************************************)

MapHas(m, k) == \E i \in 1..Len(m) : m[i].key = k
MapIndex(m, k) == CHOOSE i \in 1..Len(m) : m[i].key = k
MapGet(m, k) == m[MapIndex(m, k)].value
MapSet(m, k, v) ==
    IF MapHas(m, k) THEN [m EXCEPT ![MapIndex(m, k)].value = v]
    ELSE Append(m, [key |-> k, value |-> v])
MapDelete(m, k) ==
    IF MapHas(m, k)
    THEN LET i == MapIndex(m, k) IN SubSeq(m, 1, i - 1) \o SubSeq(m, i + 1, Len(m))
    ELSE m
MapValues(m) == [i \in 1..Len(m) |-> m[i].value]

(***************************************************************************)
(* ASTIndex                                                                *)
(***************************************************************************)

LineWeight == 1000

\* clear(): the empty index.  nodes is the table the indexed ids refer to.
ClearedIndex ==
    [nodesByPosition |-> <<>>, symbolNodes |-> <<>>, listNodes |-> <<>>,
     literalNodes |-> <<>>, nodes |-> <<>>]

\* rangeToKey: "sl:sc-el:ec".  The decimal rendering of four non-negative
\* integers with these separators is one-to-one, so the key is the tuple.
RangeToKey(range) ==
    <<Start(range).line, Start(range).character, End(range).line, End(range).character>>

\* indexNode(node)
IndexNode(idx, tbl, id) ==
    LET node == tbl[id] IN
    IF node.position = NoRange THEN idx
    ELSE LET byPos == MapSet(idx.nodesByPosition, RangeToKey(node.position), id)
         IN  IF node.type = "symbol"
             THEN LET syms == IF MapHas(idx.symbolNodes, node.name)
                              THEN idx.symbolNodes
                              ELSE MapSet(idx.symbolNodes, node.name, <<>>)
                  IN  [idx EXCEPT !.nodesByPosition = byPos,
                                  !.symbolNodes = MapSet(syms, node.name,
                                        Append(MapGet(syms, node.name), id))]
             ELSE IF node.type = "literal"
             THEN [idx EXCEPT !.nodesByPosition = byPos,
                              !.literalNodes = Append(@, id)]
             ELSE [idx EXCEPT !.nodesByPosition = byPos]

\* walkAST(nodes) indexes a node, records it when it is a list and then
\* walks its elements: it visits the nodes in pre-order, the order of the
\* table.  st is [i, idx]: the id of the next node and the index so far.
WalkNode(idx, tbl, id) ==
    IF tbl[id].type = "list"
    THEN [IndexNode(idx, tbl, id) EXCEPT !.listNodes = Append(@, id)]
    ELSE IndexNode(idx, tbl, id)

WalkAST(tbl, st) ==
    While(LAMBDA s : s.i > Len(tbl),
          LAMBDA s : [i |-> s.i + 1, idx |-> WalkNode(s.idx, tbl, s.i)],
          Len(tbl), st).idx

\* build(ast, document)
BuildIndex(a) ==
    IF a.null THEN ClearedIndex
    ELSE WalkAST(a.nodes, [i |-> 1, idx |-> [ClearedIndex EXCEPT !.nodes = a.nodes]])

\* A containment test that excludes the end of the range.
IsPositionInRange_Mutant(position, range) ==
    /\ ~(\/ position.line < Start(range).line
         \/ (position.line = Start(range).line
                /\ position.character < Start(range).character))
    /\ ~(\/ position.line > End(range).line
         \/ (position.line = End(range).line
                /\ position.character >= End(range).character))

\* isPositionInRange(position, range)
IsPositionInRange(position, range) ==
    IF \/ position.line < Start(range).line
       \/ (position.line = Start(range).line
              /\ position.character < Start(range).character)
    THEN FALSE
    ELSE IF \/ position.line > End(range).line
            \/ (position.line = End(range).line
                   /\ position.character > End(range).character)
    THEN FALSE
    ELSE TRUE

\* rangeSize(range)
RangeSize(range) ==
    IF Start(range).line = End(range).line
    THEN End(range).character - Start(range).character
    ELSE (End(range).line - Start(range).line) * LineWeight + End(range).character

\* One round of the loop of getNodeAtPosition: best is <<>> (null) or
\* <<node, size>>, id the node of the entry at hand.
Better(idx, position, best, id) ==
    IF /\ idx.nodes[id].position # NoRange
       /\ IsPositionInRange(position, idx.nodes[id].position)
       /\ (best = <<>> \/ RangeSize(idx.nodes[id].position) < best[2])
    THEN <<id, RangeSize(idx.nodes[id].position)>>
    ELSE best

\* The loop over the entries of nodesByPosition; st is [i, best].
BestMatch(idx, position, st) ==
    While(LAMBDA s : s.i > Len(idx.nodesByPosition),
          LAMBDA s : [i |-> s.i + 1,
                      best |-> Better(idx, position, s.best,
                                      idx.nodesByPosition[s.i].value)],
          Len(idx.nodesByPosition), st).best

\* ASTIndex.getNodeAtPosition(position): a node id, or 0 for null.
NodeOf(best) == IF best = <<>> THEN 0 ELSE best[1]

IndexNodeAtPosition(idx, position) ==
    NodeOf(BestMatch(idx, position, [i |-> 1, best |-> <<>>]))

\* The predicates handed to findNodes in this model.
Predicates == {"any", "symbol", "list", "literal"}
Satisfies(pred, node) == pred = "any" \/ node.type = pred

\* ASTIndex.findNodes(predicate): the ids, in the order of nodesByPosition.
IndexFindNodes(idx, pred) ==
    SelectSeq(MapValues(idx.nodesByPosition),
              LAMBDA id : Satisfies(pred, idx.nodes[id]))

\* ASTIndex.getNodesByType(type)
RECURSIVE Flat(_)
Flat(seqs) == IF seqs = <<>> THEN <<>> ELSE Head(seqs) \o Flat(Tail(seqs))

IndexNodesByType(idx, type) ==
    IF type = "symbol" THEN Flat(MapValues(idx.symbolNodes))
    ELSE IF type = "list" THEN idx.listNodes
    ELSE IF type = "literal" THEN idx.literalNodes
    ELSE <<>>

\* ASTIndex.getSymbolNodesByName(name)
IndexSymbolNodesByName(idx, name) ==
    IF MapHas(idx.symbolNodes, name) THEN MapGet(idx.symbolNodes, name) ELSE <<>>

(***************************************************************************)
(* Characters                                                              *)
(***************************************************************************)

Digits == {"0", "1", "2", "3", "4", "5", "6", "7", "8", "9"}
Letters ==
    {"a", "b", "c", "d", "e", "f", "g", "h", "i", "j", "k", "l", "m", "n", "o",
     "p", "q", "r", "s", "t", "u", "v", "w", "x", "y", "z", "A", "B", "C", "D",
     "E", "F", "G", "H", "I", "J", "K", "L", "M", "N", "O", "P", "Q", "R", "S",
     "T", "U", "V", "W", "X", "Y", "Z"}
\* \w of a JavaScript regular expression
WordChars == Letters \cup Digits \cup {"_"}
Openers == {"(", "[", "{"}
Closers == {")", "]", "}"}
Whitespace == {" ", "\t", LF, CR}
Quote == "\""
Backslash == "\\"

(***************************************************************************)
(* The transpiler's lexer and parser (imported by parser.ts, not part of   *)
(* the sources at hand): modelled from the specification's 4.1 and 4.2.    *)
(* Tokens are [text, line, column].  A number token is a run of digits.    *)
(***************************************************************************)

\* The lexer's state after the token in progress, if any, is emitted.
Flush(st) ==
    IF st.cur = <<>> THEN st
    ELSE [st EXCEPT !.out = Append(@, [text |-> st.cur, line |-> st.line,
                                       column |-> st.curCol]),
                    !.cur = <<>>]

\* The lexer's state after the character at st.i (1-based) is read.
LexStep(text, st) ==
    LET ch == text[st.i]
        next == IF ch = CR /\ st.i < Len(text) /\ text[st.i + 1] = LF
                THEN st.i + 2 ELSE st.i + 1
        advance(s) == [s EXCEPT !.i = next, !.col = @ + 1]
    IN  IF ch = LF \/ ch = CR
        THEN [Flush(st) EXCEPT !.i = next, !.line = @ + 1, !.col = 0,
                               !.mode = "normal"]
        ELSE IF st.mode = "comment" THEN advance(st)
        ELSE IF st.mode = "string"
        THEN IF ch = Quote /\ ~(Len(st.cur) > 1 /\ st.cur[Len(st.cur)] = Backslash)
             THEN advance([Flush([st EXCEPT !.cur = Append(@, ch)])
                              EXCEPT !.mode = "normal"])
             ELSE advance([st EXCEPT !.cur = Append(@, ch)])
        ELSE IF ch \in Whitespace THEN advance(Flush(st))
        ELSE IF ch = ";" THEN advance([Flush(st) EXCEPT !.mode = "comment"])
        ELSE IF ch = Quote
        THEN advance([Flush(st) EXCEPT !.cur = <<ch>>, !.curCol = st.col,
                                       !.mode = "string"])
        ELSE IF ch \in Openers \cup Closers
        THEN advance(Flush([Flush(st) EXCEPT !.cur = <<ch>>, !.curCol = st.col]))
        ELSE advance([st EXCEPT !.cur = Append(@, ch),
                                !.curCol = IF st.cur = <<>> THEN st.col ELSE @])

LexLoop(text, st) ==
    Flush(While(LAMBDA s : s.i > Len(text), LAMBDA s : LexStep(text, s),
                Len(text), st)).out

Lex(text) ==
    LexLoop(text, [i |-> 1, line |-> 0, col |-> 0, cur |-> <<>>, curCol |-> 0,
                   mode |-> "normal", out |-> <<>>])

IsNumberToken(tok) == tok # <<>> /\ \A i \in 1..Len(tok) : tok[i] \in Digits

\* String(Number(tok)) for a run of digits: leading zeros dropped.
RECURSIVE NumberText(_)
NumberText(tok) ==
    IF Len(tok) > 1 /\ Head(tok) = "0" THEN NumberText(Tail(tok)) ELSE tok

\* The node of an atom token (4.2, literal recognition order).
AtomNode(tok, parent) ==
    IF Head(tok) = Quote
    THEN Node("literal",
              SubSeq(tok, 2, IF Len(tok) > 1 /\ tok[Len(tok)] = Quote
                             THEN Len(tok) - 1 ELSE Len(tok)),
              "string", parent, NoRange)
    ELSE IF tok = <<"t", "r", "u", "e">> \/ tok = <<"f", "a", "l", "s", "e">>
    THEN Node("literal", tok, "boolean", parent, NoRange)
    ELSE IF tok = <<"n", "i", "l">> \/ tok = <<"n", "u", "l", "l">>
    THEN Node("literal", <<"n", "i", "l">>, "null", parent, NoRange)
    ELSE IF IsNumberToken(tok)
    THEN Node("literal", NumberText(tok), "number", parent, NoRange)
    ELSE Node("symbol", tok, "", parent, NoRange)

\* A ParseError is <<message, line, column>>; <<>> stands for no error.
ParseErrorAt(message, tok) == <<message, tok.line, tok.column>>

\* The parser's state is [i, stack, open, nodes, error]: the index of the
\* next token, the token indexes of the open lists' opening delimiters,
\* innermost first, the ids of their nodes, the nodes made, the ParseError.
ParseStep(toks, ps) ==
    LET tok == toks[ps.i].text
        parent == IF ps.open = <<>> THEN 0 ELSE Head(ps.open)
        id == Len(ps.nodes) + 1
        linked == IF parent = 0 THEN ps.nodes
                  ELSE [ps.nodes EXCEPT ![parent].elements = Append(@, id)]
    IN  IF Len(tok) = 1 /\ tok[1] \in Openers
        THEN [ps EXCEPT !.i = @ + 1, !.stack = <<ps.i>> \o @, !.open = <<id>> \o @,
                        !.nodes = Append(linked,
                                     [Node("list", <<>>, "", parent, NoRange)
                                         EXCEPT !.isArrayLiteral = (tok[1] = "[")])]
        ELSE IF Len(tok) = 1 /\ tok[1] \in Closers
        THEN IF ps.stack = <<>>
             THEN [ps EXCEPT !.error = ParseErrorAt("Unexpected closing delimiter",
                                                    toks[ps.i])]
             ELSE [ps EXCEPT !.i = @ + 1, !.stack = Tail(@), !.open = Tail(@)]
        ELSE [ps EXCEPT !.i = @ + 1, !.nodes = Append(linked, AtomNode(tok, parent))]

\* The result is [error, nodes]: a list still open at the end of the tokens
\* is an error at its opening delimiter.
ParseEnd(toks, ps) ==
    IF ps.error # <<>> THEN [error |-> ps.error, nodes |-> <<>>]
    ELSE IF ps.stack = <<>> THEN [error |-> <<>>, nodes |-> ps.nodes]
    ELSE [error |-> ParseErrorAt("Unclosed list", toks[Head(ps.stack)]),
          nodes |-> <<>>]

ParseLoop(toks, ps) ==
    ParseEnd(toks, While(LAMBDA s : s.error # <<>> \/ s.i > Len(toks),
                         LAMBDA s : ParseStep(toks, s), Len(toks), ps))

\* transpilerParse(source)
TranspilerParse(source) ==
    ParseLoop(Lex(source), [i |-> 1, stack |-> <<>>, open |-> <<>>, nodes |-> <<>>,
                            error |-> <<>>])

(***************************************************************************)
(* parser.ts: positions are attached to the parsed nodes by looking each   *)
(* node's text up in a map from token text to the offsets of its matches.  *)
(***************************************************************************)

\* The class of the symbol pattern /[\w\-\+\*\/\<\>\=\!\?\.]+/
SymbolPatternChars == WordChars \cup {"-", "+", "*", "/", "<", ">", "=", "!", "?", "."}
Keywords == << <<"t", "r", "u", "e">>, <<"f", "a", "l", "s", "e">>,
               <<"n", "i", "l">>, <<"n", "u", "l", "l">> >>

\* The last index of the maximal run of characters of class that starts at i.
RECURSIVE RunEnd(_, _, _)
RunEnd(text, i, class) ==
    IF i < Len(text) /\ text[i + 1] \in class THEN RunEnd(text, i + 1, class) ELSE i

\* \b between the characters at indexes i and i + 1 (1-based).
WordBoundary(text, i) ==
    LET before == i >= 1 /\ text[i] \in WordChars
        after == i < Len(text) /\ text[i + 1] \in WordChars
    IN  before # after

\* The index of the closing quote of (?:[^"\\]|\\.)*" from j on, 0 if none.
RECURSIVE StringEnd(_, _)
StringEnd(text, j) ==
    IF j > Len(text) THEN 0
    ELSE IF text[j] = Quote THEN j
    ELSE IF text[j] = Backslash
    THEN IF j < Len(text) /\ text[j + 1] \notin {LF, CR}
         THEN StringEnd(text, j + 2) ELSE 0
    ELSE StringEnd(text, j + 1)

\* The last index of the match of pattern p (1..5) that begins at index i,
\* 0 when the pattern does not match there.
MatchEnd(text, p, i) ==
    CASE p = 1 -> IF text[i] \in SymbolPatternChars
                  THEN RunEnd(text, i, SymbolPatternChars) ELSE 0
      [] p = 2 -> IF text[i] = Quote THEN StringEnd(text, i + 1) ELSE 0
      [] p = 3 -> IF text[i] \in Digits /\ WordBoundary(text, i - 1)
                  THEN LET e1 == RunEnd(text, i, Digits)
                           e2 == IF e1 + 2 <= Len(text) /\ text[e1 + 1] = "."
                                    /\ text[e1 + 2] \in Digits
                                 THEN RunEnd(text, e1 + 2, Digits) ELSE 0
                       IN  IF e2 # 0 /\ WordBoundary(text, e2) THEN e2
                           ELSE IF WordBoundary(text, e1) THEN e1 ELSE 0
                  ELSE 0
      [] p = 4 -> IF text[i] \in Openers \cup Closers THEN i ELSE 0
      [] p = 5 -> LET fits(k) == /\ i + Len(Keywords[k]) - 1 <= Len(text)
                                 /\ SubSeq(text, i, i + Len(Keywords[k]) - 1) = Keywords[k]
                                 /\ WordBoundary(text, i - 1)
                                 /\ WordBoundary(text, i + Len(Keywords[k]) - 1)
                  IN  IF \E k \in 1..Len(Keywords) : fits(k)
                      THEN i + Len(Keywords[CHOOSE k \in 1..Len(Keywords) : fits(k)]) - 1
                      ELSE 0

\* pattern.exec in a loop.  ms is [i, out]: the index the scan is at and the
\* matches so far as [token, start, end] with 0-based offsets, end
\* exclusive; e is the last index of the match at ms.i or 0.
MatchesStep(text, ms, e) ==
    IF e = 0 THEN [ms EXCEPT !.i = @ + 1]
    ELSE [i |-> e + 1,
          out |-> Append(ms.out, [token |-> SubSeq(text, ms.i, e),
                                  start |-> ms.i - 1, end |-> e])]

MatchesLoop(text, p, ms) ==
    While(LAMBDA s : s.i > Len(text),
          LAMBDA s : MatchesStep(text, s, MatchEnd(text, p, s.i)),
          Len(text), ms).out

Matches(text, p) == MatchesLoop(text, p, [i |-> 1, out |-> <<>>])

\* tokenMap.get(token).push({start, end}), the list made when missing
PushMatch(tokenMap, m) ==
    MapSet(tokenMap, m.token,
           Append(IF MapHas(tokenMap, m.token) THEN MapGet(tokenMap, m.token) ELSE <<>>,
                  [start |-> m.start, end |-> m.end]))

\* The loop over the matches ms of one pattern; st is [i, map].
PushMatches(ms, st) ==
    While(LAMBDA s : s.i > Len(ms),
          LAMBDA s : [i |-> s.i + 1, map |-> PushMatch(s.map, ms[s.i])],
          Len(ms), st).map

RECURSIVE GenerateTokenMapFrom(_, _, _)
GenerateTokenMapFrom(source, p, tokenMap) ==
    IF p > 5 THEN tokenMap
    ELSE GenerateTokenMapFrom(source, p + 1,
                              PushMatches(Matches(source, p),
                                          [i |-> 1, map |-> tokenMap]))

GenerateTokenMap(source) == GenerateTokenMapFrom(source, 1, <<>>)

\* parser.ts's own line table: an entry after every terminator.  st is
\* [i, result], i the 0-based loop index.
ParserLineOffsetsStep(text, st) ==
    IF text[st.i + 1] = CR
    THEN IF st.i + 1 < Len(text) /\ text[st.i + 2] = LF
         THEN [i |-> st.i + 2, result |-> Append(st.result, st.i + 2)]
         ELSE [i |-> st.i + 1, result |-> Append(st.result, st.i + 1)]
    ELSE IF text[st.i + 1] = LF
    THEN [i |-> st.i + 1, result |-> Append(st.result, st.i + 1)]
    ELSE [st EXCEPT !.i = @ + 1]

ParserLineOffsetsLoop(text, st) ==
    While(LAMBDA s : s.i >= Len(text), LAMBDA s : ParserLineOffsetsStep(text, s),
          Len(text), st).result

ParserGetLineOffsets(text) == ParserLineOffsetsLoop(text, [i |-> 0, result |-> <<0>>])

RECURSIVE OffsetToPositionSearch(_, _, _, _)
OffsetToPositionSearch(offs, offset, low, high) ==
    IF low < high
    THEN LET mid == (low + high) \div 2
         IN  IF offs[mid + 1] > offset
             THEN OffsetToPositionSearch(offs, offset, low, mid)
             ELSE OffsetToPositionSearch(offs, offset, mid + 1, high)
    ELSE low

OffsetToPosition(offset, offs) ==
    LET line == OffsetToPositionSearch(offs, offset, 0, Len(offs)) - 1
    IN  Pos(line, offset - offs[line + 1])

\* positions.shift(): <<first, rest of the map>>, first is <<>> when there
\* is no unused occurrence.
ShiftPosition(tokenMap, value) ==
    IF MapHas(tokenMap, value) /\ MapGet(tokenMap, value) # <<>>
    THEN <<Head(MapGet(tokenMap, value)),
           MapSet(tokenMap, value, Tail(MapGet(tokenMap, value)))>>
    ELSE <<<<>>, tokenMap>>

FindDelimiterPosition(delimiter, tokenMap) == ShiftPosition(tokenMap, <<delimiter>>)

\* The text a node is looked up by.
NodeValue(node) ==
    IF node.type = "symbol" THEN node.name
    ELSE IF node.kind = "string" THEN <<Quote>> \o node.name \o <<Quote>>
    ELSE node.name

\* The node with the range of the offsets from start to end.
Positioned(node, start, end, offs) ==
    [node EXCEPT !.position = Range(OffsetToPosition(start, offs).line,
                                    OffsetToPosition(start, offs).character,
                                    OffsetToPosition(end, offs).line,
                                    OffsetToPosition(end, offs).character)]

\* addPositionToListNode once both delimiters were looked up: [node, map].
ListPositioned(node, opening, closing, offs) ==
    IF opening[1] = <<>> \/ closing[1] = <<>>
    THEN [node |-> node, map |-> closing[2]]
    ELSE [node |-> Positioned(node, opening[1].start, closing[1].end, offs),
          map |-> closing[2]]

\* addPositionToNode once the node's text was looked up: [node, map].
AtomPositioned(node, found, offs) ==
    IF found[1] = <<>> THEN [node |-> node, map |-> found[2]]
    ELSE [node |-> Positioned(node, found[1].start, found[1].end, offs),
          map |-> found[2]]

\* findDelimiterPosition(')') after findDelimiterPosition('(') gave opening
ClosingAfter(opening) == FindDelimiterPosition(")", opening[2])

\* addPositionToNode and addPositionToListNode: [node, map] afterwards.
AddPositionToNode(node, tokenMap, offs) ==
    IF node.type = "list"
    THEN IF node.elements = <<>> THEN [node |-> node, map |-> tokenMap]
         ELSE ListPositioned(node, FindDelimiterPosition("(", tokenMap),
                             ClosingAfter(FindDelimiterPosition("(", tokenMap)), offs)
    ELSE AtomPositioned(node, ShiftPosition(tokenMap, NodeValue(node)), offs)

\* addPositionToNodes: the table is in the order of the recursive walk.  st
\* is [i, nodes, map]: the id of the next node, the table and the token map.
Placed(st, done) ==
    [i |-> st.i + 1, nodes |-> [st.nodes EXCEPT ![st.i] = done.node], map |-> done.map]

AddPositionToNodes(st, offs) ==
    While(LAMBDA s : s.i > Len(s.nodes),
          LAMBDA s : Placed(s, AddPositionToNode(s.nodes[s.i], s.map, offs)),
          Len(st.nodes), st).nodes

EnhanceASTWithPositions(tbl, source) ==
    AddPositionToNodes([i |-> 1, nodes |-> tbl, map |-> GenerateTokenMap(source)],
                       ParserGetLineOffsets(source))

(***************************************************************************)
(* SymbolTable (symbolTable.ts).  Names are sequences of characters; <<>>  *)
(* stands for undefined or null.  A SymbolInfo's node is a node id, 0 for  *)
(* the node addParameter makes up; its references are node ids.            *)
(***************************************************************************)

DefName == <<"d", "e", "f">>
DefnName == <<"d", "e", "f", "n">>
DefenumName == <<"d", "e", "f", "e", "n", "u", "m">>
LetName == <<"l", "e", "t">>
LetPrefix == <<"l", "e", "t", "_">>

NewSymbolTable == [symbols |-> <<>>, scopes |-> <<>>, currentScope |-> <<>>]

SymbolInfo(name, kind, node, parentScope, type, params, enumValues) ==
    [name |-> name, kind |-> kind, node |-> node, parentScope |-> parentScope,
     type |-> type, params |-> params, enumValues |-> enumValues,
     references |-> <<>>]

ScopedName(scopeName, name) == scopeName \o <<".">> \o name

EnterScope(st, scopeName) ==
    IF scopeName = <<>> THEN st
    ELSE [st EXCEPT !.currentScope = scopeName,
                    !.scopes = IF MapHas(@, scopeName) THEN @
                               ELSE MapSet(@, scopeName, {})]

ExitScope(st) == [st EXCEPT !.currentScope = <<>>]

\* scopeSymbols.add(name) when the scope is known to the table
AddToScope(st, scopeName, name) ==
    IF scopeName # <<>> /\ MapHas(st.scopes, scopeName)
    THEN [st EXCEPT !.scopes = MapSet(@, scopeName, MapGet(@, scopeName) \cup {name})]
    ELSE st

AddVariable(st, name, node) ==
    AddToScope(
        [st EXCEPT !.symbols =
            MapSet(@, name, SymbolInfo(name, "variable", node, st.currentScope,
                                       <<>>, <<>>, <<>>))],
        st.currentScope, name)

AddParameter(st, name, type, scopeName) ==
    IF scopeName = <<>> THEN st
    ELSE AddToScope(
             [st EXCEPT !.symbols =
                 MapSet(@, ScopedName(scopeName, name),
                        SymbolInfo(name, "parameter", 0, scopeName, type, <<>>, <<>>))],
             scopeName, ScopedName(scopeName, name))

\* for (const param of params) addParameter(...); ls is [i, table].
RECURSIVE AddParametersLoop(_, _, _)
AddParametersLoop(params, scopeName, ls) ==
    IF ls.i > Len(params) THEN ls.table
    ELSE AddParametersLoop(params, scopeName,
             [i |-> ls.i + 1,
              table |-> AddParameter(ls.table, params[ls.i].name, params[ls.i].type,
                                     scopeName)])

AddParameters(st, params, scopeName) ==
    AddParametersLoop(params, scopeName, [i |-> 1, table |-> st])

AddFunction(st, name, params, returnType, node) ==
    LET set == [st EXCEPT !.symbols =
                   MapSet(@, name, SymbolInfo(name, "function", node, st.currentScope,
                                              returnType, params, <<>>))]
        left == ExitScope(AddParameters(EnterScope(set, name), params, name))
    IN  AddToScope(left, left.currentScope, name)

RECURSIVE AddEnumValues(_, _, _, _)
AddEnumValues(st, enumName, values, node) ==
    IF values = <<>> THEN st
    ELSE AddEnumValues(
             [st EXCEPT !.symbols =
                 MapSet(@, ScopedName(enumName, Head(values)),
                        SymbolInfo(Head(values), "enum-value", node, enumName,
                                   <<>>, <<>>, <<>>))],
             enumName, Tail(values), node)

AddEnum(st, name, values, node) ==
    LET set == [st EXCEPT !.symbols =
                   MapSet(@, name, SymbolInfo(name, "enum", node, st.currentScope,
                                              <<>>, <<>>, values))]
        valued == AddEnumValues(set, name, values, node)
    IN  AddToScope(valued, valued.currentScope, name)

Includes(seq, x) == \E i \in 1..Len(seq) : seq[i] = x

\* findSymbol: the key of the SymbolInfo found, as <<key>>, or <<>> when the
\* result is undefined.
FindSymbol(st, name) ==
    LET scoped == ScopedName(st.currentScope, name)
        isEnumOf(i) == /\ st.symbols[i].value.kind = "enum"
                       /\ Includes(st.symbols[i].value.enumValues, name)
    IN  IF MapHas(st.symbols, name) THEN <<name>>
        ELSE IF st.currentScope # <<>> /\ MapHas(st.symbols, scoped) THEN <<scoped>>
        ELSE IF \E i \in 1..Len(st.symbols) : isEnumOf(i)
        THEN LET first == CHOOSE i \in 1..Len(st.symbols) :
                              isEnumOf(i) /\ \A j \in 1..(i - 1) : ~isEnumOf(j)
                 key == ScopedName(st.symbols[first].value.name, name)
             IN  IF MapHas(st.symbols, key) THEN <<key>> ELSE <<>>
        ELSE <<>>

\* addReference on the SymbolInfo stored under key
AddReference(st, key, node) ==
    [st EXCEPT !.symbols[MapIndex(st.symbols, key)].value.references = Append(@, node)]

(***************************************************************************)
(* parser.ts: parse(source) and its cache, a Map of the module from        *)
(* hashSource(source) to [ast, timestamp].  now is Date.now().             *)
(***************************************************************************)

MAX_CACHE_SIZE == 100
MAX_CACHE_AGE_MS == 2 * 60 * 1000

\* The characters of codes 32..126, in order (the grave accent spelled out).
AsciiPrintable ==
    << " ", "!", Quote, "#", "$", "%", "&", "'", "(", ")", "*", "+", ",",
       "-", ".", "/", "0", "1", "2", "3", "4", "5", "6", "7", "8", "9", ":",
       ";", "<", "=", ">", "?", "@", "A", "B", "C", "D", "E", "F", "G", "H",
       "I", "J", "K", "L", "M", "N", "O", "P", "Q", "R", "S", "T", "U", "V",
       "W", "X", "Y", "Z", "[", Backslash, "]", "^", "_", "grave", "a", "b", "c",
       "d", "e", "f", "g", "h", "i", "j", "k", "l", "m", "n", "o", "p", "q",
       "r", "s", "t", "u", "v", "w", "x", "y", "z", "{", "|", "}", "~" >>

\* charCodeAt
CharCode(ch) ==
    CASE ch = LF -> 10
      [] ch = CR -> 13
      [] ch = "\t" -> 9
      [] OTHER -> 31 + CHOOSE i \in 1..Len(AsciiPrintable) : AsciiPrintable[i] = ch

Limb == 65536

\* hash = ((hash << 5) + hash) + code on the number <<q, r1, r0>>, which
\* stands for q * 2^32 + r1 * 2^16 + r0: hash << 5 keeps the low 32 bits of
\* 32 * hash as a signed number, the two additions are exact.
HashStep(h, code) ==
    LET lo == (h[3] * 32) % Limb
        hi == (h[2] * 32 + (h[3] * 32) \div Limb) % Limb
        s0 == h[3] + lo + code
        s1 == h[2] + hi + s0 \div Limb
    IN  <<h[1] + s1 \div Limb - (IF hi >= Limb \div 2 THEN 1 ELSE 0),
          s1 % Limb, s0 % Limb>>

\* The loop of hashSource; st is [i, hash], i the 1-based index.
HashLoop(source, st) ==
    While(LAMBDA s : s.i > Len(source),
          LAMBDA s : [i |-> s.i + 1,
                      hash |-> HashStep(s.hash, CharCode(source[s.i]))],
          Len(source), st).hash

\* hashSource: djb2 from 5381
HashSource(source) == HashLoop(source, [i |-> 1, hash |-> <<0, 0, 5381>>])

\* The key of an entry with the smallest timestamp, the first such in
\* insertion order; <<>> when the cache is empty.
OldestKey(cache) ==
    IF cache = <<>> THEN <<>>
    ELSE LET oldest == CHOOSE i \in 1..Len(cache) :
                          /\ \A j \in 1..Len(cache) :
                                 cache[i].value.timestamp <= cache[j].value.timestamp
                          /\ \A j \in 1..(i - 1) :
                                 cache[j].value.timestamp > cache[i].value.timestamp
         IN  <<cache[oldest].key>>

\* A cacheResult that makes room only once the cache is beyond its size.
CacheResult_Mutant(cache, key, tbl, time) ==
    LET room == IF Len(cache) > MAX_CACHE_SIZE /\ OldestKey(cache) # <<>>
                THEN MapDelete(cache, OldestKey(cache)[1]) ELSE cache
    IN  MapSet(room, key, [ast |-> tbl, timestamp |-> time])

CacheResult(cache, key, tbl, time) ==
    LET room == IF Len(cache) >= MAX_CACHE_SIZE /\ OldestKey(cache) # <<>>
                THEN MapDelete(cache, OldestKey(cache)[1]) ELSE cache
    IN  MapSet(room, key, [ast |-> tbl, timestamp |-> time])

\* Is the entry of key fresh enough to be used at time?
CacheHit(cache, key, time) ==
    MapHas(cache, key) /\ time - MapGet(cache, key).timestamp < MAX_CACHE_AGE_MS

\* The result of parse(source) when the cache gives nothing: parsed is what
\* the transpiler's parser gave, kept the cache without a too old entry.
ParseMiss(parsed, enhanced, kept, key, time) ==
    IF parsed.error # <<>>
    THEN [thrown |-> parsed.error, ast |-> <<>>, cache |-> kept]
    ELSE [thrown |-> <<>>, ast |-> enhanced,
          cache |-> CacheResult(kept, key, enhanced, time)]

ParseKeyed(cache, key, source, time) ==
    IF CacheHit(cache, key, time)
    THEN [thrown |-> <<>>, ast |-> MapGet(cache, key).ast, cache |-> cache]
    ELSE ParseMiss(TranspilerParse(source),
                   EnhanceASTWithPositions(TranspilerParse(source).nodes, source),
                   MapDelete(cache, key), key, time)

\* parse(source) at time: [thrown, ast, cache]; thrown is the ParseError of
\* the transpiler's parser or <<>>, cache the cache afterwards.
Parse(cache, source, time) == ParseKeyed(cache, HashSource(source), source, time)

(***************************************************************************)
(* HQLDocument.buildSymbolTable (renameProvider.ts)                        *)
(***************************************************************************)

SpecialSymbols ==
    {<<"d", "e", "f">>, <<"d", "e", "f", "n">>, <<"f", "n">>, <<"i", "f">>,
     <<"c", "o", "n", "d">>, <<"l", "e", "t">>, <<"f", "o", "r">>,
     <<"p", "r", "i", "n", "t">>, <<"s", "t", "r">>,
     <<"v", "e", "c", "t", "o", "r">>, <<"l", "i", "s", "t">>,
     <<"h", "a", "s", "h", "-", "m", "a", "p">>,
     <<"k", "e", "y", "w", "o", "r", "d">>, <<"n", "e", "w">>,
     <<"g", "e", "t">>, <<"s", "e", "t">>, <<"r", "e", "t", "u", "r", "n">>,
     <<"i", "m", "p", "o", "r", "t">>, <<"e", "x", "p", "o", "r", "t">>,
     <<"d", "e", "f", "e", "n", "u", "m">>, <<"-", ">">>, <<"+">>, <<"-">>,
     <<"*">>, <<"/">>, <<"<">>, <<">">>, <<"<", "=">>, <<">", "=">>, <<"=">>,
     <<"!", "=">>, <<"t", "r", "u", "e">>, <<"f", "a", "l", "s", "e">>,
     <<"n", "u", "l", "l">>, <<"n", "i", "l">>, <<":">>, <<".">>}

IsSpecialSymbol(name) == name \in SpecialSymbols

IsDefOrDefnNode(tbl, id) ==
    /\ tbl[id].type = "list"
    /\ Len(tbl[id].elements) >= 2
    /\ tbl[tbl[id].elements[1]].type = "symbol"
    /\ tbl[tbl[id].elements[1]].name \in {DefName, DefnName, DefenumName}

IsSymbolNamed(tbl, id, name) == tbl[id].type = "symbol" /\ tbl[id].name = name

\* extractFunctionParams: the loop from index i (0-based) of the elements els.
RECURSIVE ExtractParamsFrom(_, _, _)
ExtractParamsFrom(tbl, els, i) ==
    IF i >= Len(els) THEN <<>>
    ELSE IF tbl[els[i + 1]].type # "symbol" THEN ExtractParamsFrom(tbl, els, i + 1)
    ELSE LET raw == tbl[els[i + 1]].name
             isNamed == raw[Len(raw)] = ":"
             paramName == IF isNamed THEN SubSeq(raw, 1, Len(raw) - 1) ELSE raw
             follows(k, name) == k + 2 < Len(els) /\ IsSymbolNamed(tbl, els[k + 2], name)
             typed == follows(i, <<":">>)
             paramType == IF typed /\ tbl[els[i + 3]].type = "symbol"
                          THEN tbl[els[i + 3]].name ELSE <<>>
             i1 == IF typed THEN i + 2 ELSE i
             defaulted == follows(i1, <<"=">>)
             i2 == IF defaulted THEN i1 + 2 ELSE i1
         IN  <<[name |-> paramName, type |-> paramType,
                defaultValue |-> IF defaulted THEN els[i1 + 3] ELSE 0,
                isNamed |-> isNamed]>>
             \o ExtractParamsFrom(tbl, els, i2 + 1)

ExtractFunctionParams(tbl, paramsNode) ==
    ExtractParamsFrom(tbl, tbl[paramsNode].elements, 0)

\* The names of the Symbol nodes among the ids, in order.
SymbolNames(tbl, ids) ==
    LET symbols == SelectSeq(ids, LAMBDA id : tbl[id].type = "symbol")
    IN  [i \in 1..Len(symbols) |-> tbl[symbols[i]].name]

ProcessDefinition(st, tbl, id) ==
    LET els == tbl[id].elements
        first == tbl[els[1]].name
        named == tbl[els[2]].type = "symbol"
        name == tbl[els[2]].name
    IN  IF first = DefName /\ Len(els) >= 3
        THEN IF named THEN AddVariable(st, name, id) ELSE st
        ELSE IF first = DefnName /\ Len(els) >= 4
        THEN IF named
             THEN AddFunction(st, name, ExtractFunctionParams(tbl, els[3]),
                              IF Len(els) > 4 /\ IsSymbolNamed(tbl, els[4], <<"-", ">">>)
                                 /\ tbl[els[5]].type = "symbol"
                              THEN tbl[els[5]].name ELSE <<>>,
                              id)
             ELSE st
        ELSE IF first = DefenumName /\ Len(els) >= 3
        THEN IF named
             THEN AddEnum(st, name, SymbolNames(tbl, SubSeq(els, 3, Len(els))), id)
             ELSE st
        ELSE st

\* Pass 2.  w is [table, ids, log]: the symbol table, the results the coming
\* calls of generateScopeId will have, and the record of the walk so far: an
\* event [node, at, scope] for the start of every call of processReferences
\* and for the end of every call on a list, scope being currentScope then.
WalkEvent(w, id, at) == [node |-> id, at |-> at, scope |-> w.table.currentScope]

Logged(w, id, at) == [w EXCEPT !.log = Append(@, WalkEvent(w, id, at))]

RECURSIVE ProcessReferences(_, _, _, _)
RECURSIVE ElementsLoop(_, _, _, _)
RECURSIVE BindingsLoop(_, _, _, _)

\* for (const element of ...) processReferences(element, scope); ls is
\* [i, w], i the 1-based index of the next element.
ElementsLoop(tbl, els, scope, ls) ==
    IF ls.i > Len(els) THEN ls.w
    ELSE ElementsLoop(tbl, els, scope,
                      [i |-> ls.i + 1,
                       w |-> ProcessReferences(ls.w, tbl, els[ls.i], scope)])

ProcessElements(w, tbl, els, scope) == ElementsLoop(tbl, els, scope, [i |-> 1, w |-> w])

\* The loop over the binding list of a let form; ls is [i, w], i the 0-based
\* index of the next name.
BindingsLoop(tbl, els, scope, ls) ==
    IF ls.i >= Len(els) \/ ls.i + 1 >= Len(els) THEN ls.w
    ELSE BindingsLoop(tbl, els, scope,
             [i |-> ls.i + 2,
              w |-> IF tbl[els[ls.i + 1]].type = "symbol"
                    THEN ProcessReferences(
                             [ls.w EXCEPT !.table =
                                 AddVariable(@, tbl[els[ls.i + 1]].name, els[ls.i + 1])],
                             tbl, els[ls.i + 2], scope)
                    ELSE ls.w])

ProcessBindings(w, tbl, els, scope) == BindingsLoop(tbl, els, scope, [i |-> 0, w |-> w])

ProcessReferences(w0, tbl, id, parentScope) ==
    IF tbl[id].type = "symbol"
    THEN LET w == Logged(w0, id, "start")
             found == IF IsSpecialSymbol(tbl[id].name) THEN <<>>
                      ELSE FindSymbol(w.table, tbl[id].name)
         IN  IF found = <<>> THEN w
             ELSE [w EXCEPT !.table = AddReference(@, found[1], id)]
    ELSE IF tbl[id].type = "list"
    THEN LET w == Logged(w0, id, "start")
             els == tbl[id].elements
             headed == els # <<>> /\ tbl[els[1]].type = "symbol"
             isDefn == /\ headed /\ tbl[els[1]].name = DefnName
                       /\ Len(els) >= 2 /\ tbl[els[2]].type = "symbol"
             scope == IF isDefn THEN tbl[els[2]].name ELSE parentScope
             hasParams == isDefn /\ Len(els) >= 3 /\ tbl[els[3]].type = "list"
             w1 == IF isDefn
                   THEN [w EXCEPT !.table =
                            IF hasParams
                            THEN AddParameters(EnterScope(@, scope),
                                               ExtractFunctionParams(tbl, els[3]), scope)
                            ELSE EnterScope(@, scope)]
                   ELSE w
             isLet == /\ headed /\ tbl[els[1]].name = LetName
                      /\ Len(els) >= 2 /\ tbl[els[2]].type = "list"
         IN  IF isLet
             THEN LET letScope == LetPrefix \o Head(w1.ids)
                      entered == [table |-> EnterScope(w1.table, letScope),
                                  ids |-> Tail(w1.ids), log |-> w1.log]
                      bound == ProcessBindings(entered, tbl, tbl[els[2]].elements, scope)
                      walked == ProcessElements(bound, tbl, SubSeq(els, 3, Len(els)),
                                                letScope)
                  IN  Logged([walked EXCEPT !.table = ExitScope(@)], id, "end")
             ELSE LET walked == ProcessElements(w1, tbl, els, scope)
                  IN  Logged(IF scope # <<>> /\ scope # parentScope
                             THEN [walked EXCEPT !.table = ExitScope(@)]
                             ELSE walked,
                             id, "end")
    ELSE Logged(w0, id, "start")

\* Pass 1; ls is [i, table], i the index of the next top-level form.
RECURSIVE CollectDefinitions(_, _, _)
CollectDefinitions(tbl, ids, ls) ==
    IF ls.i > Len(ids) THEN ls.table
    ELSE CollectDefinitions(tbl, ids,
             [i |-> ls.i + 1,
              table |-> IF IsDefOrDefnNode(tbl, ids[ls.i])
                        THEN ProcessDefinition(ls.table, tbl, ids[ls.i])
                        ELSE ls.table])

\* symbolTable.clear() followed by buildSymbolTable(); scopeIds are the
\* results of the calls of generateScopeId, in order.
SymbolPasses(a, scopeIds) ==
    ProcessElements([table |-> CollectDefinitions(a.nodes, TopLevel(a.nodes),
                                   [i |-> 1, table |-> NewSymbolTable]),
                     ids |-> scopeIds, log |-> <<>>],
                    a.nodes, TopLevel(a.nodes), <<>>)

BuildSymbolTable(a, scopeIds) ==
    IF a.null THEN NewSymbolTable ELSE SymbolPasses(a, scopeIds).table

\* The record of the walk of pass 2 in that build.
ScopeWalk(a, scopeIds) ==
    IF a.null THEN <<>> ELSE SymbolPasses(a, scopeIds).log

\* The number of let forms pass 2 enters: the number of scope ids it draws.
LetForms(tbl) ==
    Cardinality({id \in 1..Len(tbl) :
                    /\ tbl[id].type = "list" /\ Len(tbl[id].elements) >= 2
                    /\ IsSymbolNamed(tbl, tbl[id].elements[1], LetName)
                    /\ tbl[tbl[id].elements[2]].type = "list"})

(***************************************************************************)
(* SpecPos: one document's text and position index.  The document is       *)
(* constructed with any text over PosAlphabet, may be updated to another   *)
(* one, and answers offsetAt / positionAt.  The fields of the document     *)
(* that the position index never reads are left idle here.                 *)
(***************************************************************************)

Idle == "idle"

MaxTextLen == 3
MaxPosVersion == 2

PosAlphabet == {"a", LF, CR}
PosTexts == UNION {[1..n -> PosAlphabet] : n \in 0..MaxTextLen}
PosOffsets == (0 - 1)..(MaxTextLen + 1)
PosPositions == [line : (0 - 1)..(MaxTextLen + 1), character : 0..(MaxTextLen + 1)]

posIdle == <<dirty, ast, parseError, symbolTable, astIndex, parseCache, now, server,
            hist>>

InitPos ==
    /\ version = 1
    /\ content \in PosTexts
    /\ lineOffsets = UndefinedOffsets
    /\ dirty = Idle /\ ast = Idle /\ parseError = Idle /\ symbolTable = Idle
    /\ astIndex = Idle /\ parseCache = Idle /\ now = 0 /\ hist = Idle
    /\ server = Idle
    /\ lastOp = [op |-> "new", arg |-> 0, ret |-> 0]

\* update(document): text and version replaced, the line table dropped.
PosUpdate(v, text) ==
    /\ v > version
    /\ v <= MaxPosVersion
    /\ version' = v
    /\ content' = text
    /\ lineOffsets' = UndefinedOffsets
    /\ lastOp' = [op |-> "update", arg |-> v, ret |-> 0]
    /\ UNCHANGED posIdle

\* offsetAt(position)
OffsetAt(position) ==
    /\ lineOffsets' = GetLineOffsets(content, lineOffsets)
    /\ lastOp' = [op |-> "offsetAt", arg |-> position,
                  ret |-> OffsetAtWith(content, lineOffsets'.table, position)]
    /\ UNCHANGED <<version, content>>
    /\ UNCHANGED posIdle

\* positionAt(offset)
PositionAt(offset) ==
    /\ lineOffsets' = GetLineOffsets(content, lineOffsets)
    /\ lastOp' = [op |-> "positionAt", arg |-> offset,
                  ret |-> PositionAtWith(content, lineOffsets'.table, offset)]
    /\ UNCHANGED <<version, content>>
    /\ UNCHANGED posIdle

\* offsetAt(positionAt(offset)): two calls in a row on the same document.
OffsetOfPosition(offset) ==
    /\ lineOffsets' = GetLineOffsets(content, lineOffsets)
    /\ lastOp' = [op |-> "positionAt;offsetAt", arg |-> offset,
                  ret |-> OffsetAtWith(content, lineOffsets'.table,
                             PositionAtWith(content, lineOffsets'.table, offset))]
    /\ UNCHANGED <<version, content>>
    /\ UNCHANGED posIdle

\* positionAt(offsetAt(position)): two calls in a row on the same document.
PositionOfOffset(position) ==
    /\ lineOffsets' = GetLineOffsets(content, lineOffsets)
    /\ lastOp' = [op |-> "offsetAt;positionAt", arg |-> position,
                  ret |-> PositionAtWith(content, lineOffsets'.table,
                             OffsetAtWith(content, lineOffsets'.table, position))]
    /\ UNCHANGED <<version, content>>
    /\ UNCHANGED posIdle

NextPos ==
    \/ \E text \in PosTexts : PosUpdate(version + 1, text)
    \/ \E p \in PosPositions : OffsetAt(p)
    \/ \E o \in PosOffsets : PositionAt(o)
    \/ \E o \in PosOffsets : OffsetOfPosition(o)
    \/ \E p \in PosPositions : PositionOfOffset(p)

SpecPos == InitPos /\ [][NextPos]_vars

\* The lengths of the lines of a text, terminators (\r\n, \r, \n) excluded;
\* a text holds one line more than it holds terminators.
RECURSIVE LineLengths(_, _, _)
LineLengths(text, i, cur) ==
    IF i > Len(text) THEN <<cur>>
    ELSE IF text[i] = CR /\ i + 1 <= Len(text) /\ text[i + 1] = LF
         THEN <<cur>> \o LineLengths(text, i + 2, 0)
    ELSE IF text[i] = CR \/ text[i] = LF
         THEN <<cur>> \o LineLengths(text, i + 1, 0)
    ELSE LineLengths(text, i + 1, cur + 1)

ValidPosition(text, p) ==
    LET lens == LineLengths(text, 1, 0)
    IN  /\ p.line >= 0 /\ p.line < Len(lens)
        /\ p.character >= 0 /\ p.character <= lens[p.line + 1]

\* C8: offsetAt(positionAt(o)) = o for every offset o in [0, text length], and
\* positionAt(offsetAt(p)) = p for every position p whose line exists and whose
\* character does not exceed the length of that line without its terminator.
C8_RoundTrip ==
    /\ (lastOp.op = "positionAt;offsetAt" /\ lastOp.arg \in 0..Len(content))
          => lastOp.ret = lastOp.arg
    /\ (lastOp.op = "offsetAt;positionAt" /\ ValidPosition(content, lastOp.arg))
          => lastOp.ret = lastOp.arg

\* A position on the second line of a text whose first line ends in \r\n has
\* made the round trip.
C8_Witness ==
    /\ content = <<CR, LF, "a">>
    /\ lastOp.op = "offsetAt;positionAt"
    /\ lastOp.arg = [line |-> 1, character |-> 1]
    /\ lastOp.ret = lastOp.arg

\* Offset i starts a line of the text: it is 0 or follows a terminator
\* (\n, \r\n, or a \r that no \n follows).
IsLineStart(text, i) ==
    \/ i = 0
    \/ text[i] = LF
    \/ text[i] = CR /\ (i = Len(text) \/ text[i + 1] # LF)

\* The starts of the lines of a text from offset i on, in order.
RECURSIVE LineStartsFrom(_, _)
LineStartsFrom(text, i) ==
    IF i > Len(text) THEN <<>>
    ELSE (IF IsLineStart(text, i) THEN <<i>> ELSE <<>>) \o LineStartsFrom(text, i + 1)

LineStarts(text) == LineStartsFrom(text, 0)

\* The offset of a position on an existing line: the character limited by
\* the start of the next line (the text length for the last line).
OffsetOnLine(text, line, character) ==
    LET starts == LineStarts(text)
        limit == IF line + 1 < Len(starts) THEN starts[line + 2] ELSE Len(text)
    IN  Min(starts[line + 1] + character, limit)

\* The offset of a position as stated: the line clamped into [0, lineCount)
\* first.
ClampedOffset(text, p) ==
    OffsetOnLine(text, Max(0, Min(p.line, Len(LineStarts(text)) - 1)), p.character)

\* C28 as stated: offsetAt(p) is the offset of p after its line is clamped
\* into [0, lineCount) and its character limited by the start of the next
\* line (the text length for the last line); for a character >= 0 it lies in
\* [0, text length].
C28_OffsetClamped ==
    lastOp.op = "offsetAt" =>
        /\ lastOp.ret = ClampedOffset(content, lastOp.arg)
        /\ lastOp.arg.character >= 0 => lastOp.ret \in 0..Len(content)

\* C28 amended: offsetAt(p) is 0 for a line below 0 and the text length for
\* a line at or beyond lineCount, whatever the character; for a line in
\* [0, lineCount) it is min(start of the line + p.character, start of the
\* next line, or the text length for the last line); for a character >= 0
\* it lies in [0, text length].
C28_OffsetAtEnds ==
    lastOp.op = "offsetAt" =>
        LET p == lastOp.arg
        IN  /\ p.line < 0 => lastOp.ret = 0
            /\ p.line >= Len(LineStarts(content)) => lastOp.ret = Len(content)
            /\ p.line \in 0..(Len(LineStarts(content)) - 1)
                  => lastOp.ret = OffsetOnLine(content, p.line, p.character)
            /\ p.character >= 0 => lastOp.ret \in 0..Len(content)

\* offsetAt was asked for the start of a line beyond the last one of a text
\* of two lines and answered the text length, where the clamped line gives
\* the start of the last line.
C28_Witness ==
    /\ lastOp.op = "offsetAt"
    /\ content = <<"a", LF, "a">>
    /\ lastOp.arg = [line |-> 2, character |-> 0]
    /\ lastOp.ret = 3
    /\ ClampedOffset(content, lastOp.arg) = 2

(***************************************************************************)
(* SpecIndex: the ASTIndex class on its own.  The input is an AST whose    *)
(* nodes carry the ranges a well-formed layout gives them: the text        *)
(*     ( S g1 T g2 )     or     ( S g1 ( T ) g2 )                          *)
(* where S and T are symbols of chosen lengths and each gap g is a blank   *)
(* or a line break.  One node may carry no range.                          *)
(***************************************************************************)

MaxSymLen == 2

SymLens == (1..MaxSymLen) \cup {LineWeight + 1}
Gaps == {"sp", "nl"}

\* The node table of a layout: a sequence of items "open", "close", "sym",
\* "lit", "sp", "nl"; an item with ranged = FALSE yields a node without range.
RECURSIVE LayOut(_, _, _, _, _, _)
LayOut(items, i, line, char, stack, tbl) ==
    IF i > Len(items) THEN tbl
    ELSE LET it == items[i]
             parent == IF stack = <<>> THEN 0 ELSE Head(stack)
             id == Len(tbl) + 1
             linked == IF parent = 0 THEN tbl
                       ELSE [tbl EXCEPT ![parent].elements = Append(@, id)]
         IN  IF it.k = "open"
             THEN LayOut(items, i + 1, line, char + 1, <<id>> \o stack,
                         Append(linked, Node("list", <<>>, "", parent,
                                  IF it.ranged THEN Range(line, char, line, char)
                                  ELSE NoRange)))
             ELSE IF it.k = "close"
             THEN LayOut(items, i + 1, line, char + 1, Tail(stack),
                         IF tbl[parent].position = NoRange THEN tbl
                         ELSE [tbl EXCEPT ![parent].position =
                                  Range(@[1], @[2], line, char + 1)])
             ELSE IF it.k = "sym" \/ it.k = "lit"
             THEN LayOut(items, i + 1, line, char + it.len, stack,
                         Append(linked,
                                Node(IF it.k = "sym" THEN "symbol" ELSE "literal",
                                     it.name, IF it.k = "sym" THEN "" ELSE "number",
                                     parent,
                                     IF it.ranged
                                     THEN Range(line, char, line, char + it.len)
                                     ELSE NoRange)))
             ELSE IF it.k = "nl"
             THEN LayOut(items, i + 1, line + 1, 0, stack, tbl)
             ELSE LayOut(items, i + 1, line, char + 1, stack, tbl)

Item(k, len, name, ranged) == [k |-> k, len |-> len, name |-> name, ranged |-> ranged]
Open(ranged) == Item("open", 1, <<>>, ranged)
Close == Item("close", 1, <<>>, TRUE)
Gap(g) == Item(g, 1, <<>>, TRUE)
Sym(len, name, ranged) == Item("sym", len, name, ranged)

\* missing: which node carries no range ("none", "T" or "inner").
FlatLayout(s, t, g1, g2, missing) ==
    <<Open(TRUE), Sym(s, <<"s">>, TRUE), Gap(g1), Sym(t, <<"t">>, missing # "T"),
      Gap(g2), Close>>
NestedLayout(s, t, g1, g2, missing) ==
    <<Open(TRUE), Sym(s, <<"s">>, TRUE), Gap(g1), Open(missing # "inner"),
      Sym(t, <<"t">>, missing # "T"), Close, Gap(g2), Close>>

\* Texts whose number literals have the same normalised text ("01" and "1"
\* both read as 1): parse() of parser.ts gives them the ASTs below.
TwinTexts ==
    {<<"0", "1", " ", "1">>, <<"1", " ", "0", "1">>,
     <<"(", "f", " ", "0", "1", " ", "1", ")">>}
ParsedAsts ==
    {Ast(EnhanceASTWithPositions(TranspilerParse(t).nodes, t)) : t \in TwinTexts}

IndexAsts ==
    {Ast(LayOut(FlatLayout(s, t, g1, g2, m), 1, 0, 0, <<>>, <<>>)) :
        s \in SymLens, t \in SymLens, g1 \in Gaps, g2 \in Gaps, m \in {"none", "T"}}
    \cup
    {Ast(LayOut(NestedLayout(s, t, g1, g2, m), 1, 0, 0, <<>>, <<>>)) :
        s \in SymLens, t \in SymLens, g1 \in Gaps, g2 \in Gaps,
        m \in {"none", "T", "inner"}}
    \cup ParsedAsts

\* The positions a query is made at: every line of the layout and one beyond,
\* at every character that is an endpoint of a range or next to one.
QueryPositions(tbl) ==
    LET ranged == {i \in 1..Len(tbl) : tbl[i].position # NoRange}
        chars == UNION {{tbl[i].position[2], tbl[i].position[4]} : i \in ranged}
        near == UNION {{c - 1, c, c + 1} : c \in chars}
        lines == UNION {{tbl[i].position[1], tbl[i].position[3]} : i \in ranged}
    IN  {Pos(l, c) : l \in lines \cup {0, 3}, c \in {c \in near : c >= 0}}

idxIdle == <<version, content, lineOffsets, dirty, parseError, symbolTable,
             parseCache, now, server, hist>>

InitIndex ==
    /\ ast \in IndexAsts
    /\ astIndex = ClearedIndex
    /\ version = 0 /\ content = Idle /\ lineOffsets = Idle /\ dirty = Idle
    /\ parseError = Idle /\ symbolTable = Idle /\ parseCache = Idle /\ now = 0
    /\ hist = Idle /\ server = Idle
    /\ lastOp = [op |-> "new", arg |-> 0, ret |-> 0]

\* astIndex.build(ast, document)
IndexBuild ==
    /\ astIndex' = BuildIndex(ast)
    /\ lastOp' = [op |-> "build", arg |-> 0, ret |-> 0]
    /\ UNCHANGED ast /\ UNCHANGED idxIdle

\* astIndex.clear()
IndexClear ==
    /\ astIndex' = ClearedIndex
    /\ lastOp' = [op |-> "clear", arg |-> 0, ret |-> 0]
    /\ UNCHANGED ast /\ UNCHANGED idxIdle

\* astIndex.getNodeAtPosition(position)
IndexGetNodeAtPosition(position) ==
    /\ lastOp' = [op |-> "getNodeAtPosition", arg |-> position,
                  ret |-> IndexNodeAtPosition(astIndex, position)]
    /\ UNCHANGED <<ast, astIndex>> /\ UNCHANGED idxIdle

\* astIndex.findNodes(predicate)
IndexFind(pred) ==
    /\ lastOp' = [op |-> "findNodes", arg |-> pred,
                  ret |-> IndexFindNodes(astIndex, pred)]
    /\ UNCHANGED <<ast, astIndex>> /\ UNCHANGED idxIdle

\* astIndex.getNodesByType(type)
IndexGetNodesByType(type) ==
    /\ lastOp' = [op |-> "getNodesByType", arg |-> type,
                  ret |-> IndexNodesByType(astIndex, type)]
    /\ UNCHANGED <<ast, astIndex>> /\ UNCHANGED idxIdle

\* astIndex.getSymbolNodesByName(name)
IndexGetSymbolNodesByName(name) ==
    /\ lastOp' = [op |-> "getSymbolNodesByName", arg |-> name,
                  ret |-> IndexSymbolNodesByName(astIndex, name)]
    /\ UNCHANGED <<ast, astIndex>> /\ UNCHANGED idxIdle

NextIndex ==
    \/ IndexBuild
    \/ IndexClear
    \/ \E p \in QueryPositions(ast.nodes) : IndexGetNodeAtPosition(p)
    \/ \E pred \in Predicates : IndexFind(pred)
    \/ \E type \in {"symbol", "list", "literal"} : IndexGetNodesByType(type)
    \/ \E name \in {<<"s">>, <<"t">>, <<"u">>} : IndexGetSymbolNodesByName(name)

SpecIndex == InitIndex /\ [][NextIndex]_vars

\* The index holds the nodes of the current AST.
IndexBuilt == ~ast.null /\ astIndex.nodes = ast.nodes

LexLeq(a, b) == a.line < b.line \/ (a.line = b.line /\ a.character <= b.character)
LexLess(a, b) == a.line < b.line \/ (a.line = b.line /\ a.character < b.character)

\* C6: in an index built from an AST whose nodes carry ranges, a query at a
\* position strictly inside the range of a Symbol node returns that Symbol.
C6_SymbolWins ==
    (lastOp.op = "getNodeAtPosition" /\ IndexBuilt) =>
        \A id \in 1..Len(ast.nodes) :
            (/\ ast.nodes[id].type = "symbol"
             /\ ast.nodes[id].position # NoRange
             /\ LexLess(Start(ast.nodes[id].position), lastOp.arg)
             /\ LexLess(lastOp.arg, End(ast.nodes[id].position)))
            => lastOp.ret = id

\* The nodes the index holds: the values of nodesByPosition.
Indexed == {astIndex.nodesByPosition[i].value : i \in 1..Len(astIndex.nodesByPosition)}

\* The range-size as the claim states it.
StatedSize(range) ==
    IF range[1] = range[3] THEN range[4] - range[2]
    ELSE LineWeight * (range[3] - range[1]) + range[4]

\* C7: getNodeAtPosition(p) returns null iff no indexed node's range contains
\* p (both endpoints inclusive, compared on (line, character)); otherwise it
\* returns an indexed node whose range contains p and whose range-size is
\* minimal among the indexed nodes whose range contains p.
C7_SmallestContaining ==
    lastOp.op = "getNodeAtPosition" =>
        LET p == lastOp.arg
            holding == {id \in Indexed :
                           /\ LexLeq(Start(astIndex.nodes[id].position), p)
                           /\ LexLeq(p, End(astIndex.nodes[id].position))}
        IN  /\ (lastOp.ret = 0) <=> (holding = {})
            /\ lastOp.ret # 0 =>
                  /\ lastOp.ret \in holding
                  /\ \A id \in holding :
                        StatedSize(astIndex.nodes[lastOp.ret].position)
                           <= StatedSize(astIndex.nodes[id].position)

\* The nodes the getters of the index can return: the values of
\* nodesByPosition and the members of the three collections by type.
Obtainable(idx) ==
    {idx.nodesByPosition[i].value : i \in 1..Len(idx.nodesByPosition)}
    \cup {IndexNodesByType(idx, "symbol")[i] :
             i \in 1..Len(IndexNodesByType(idx, "symbol"))}
    \cup {idx.listNodes[i] : i \in 1..Len(idx.listNodes)}
    \cup {idx.literalNodes[i] : i \in 1..Len(idx.literalNodes)}

\* C19: after build, every node the index can return, by position, by
\* predicate, by type or by name, carries a range.
C19_RangedOnly ==
    IndexBuilt => \A id \in Obtainable(astIndex) : astIndex.nodes[id].position # NoRange

\* The nodes of the AST that carry a range and satisfy a predicate.
RangedSatisfying(tbl, pred) ==
    {id \in 1..Len(tbl) : tbl[id].position # NoRange /\ Satisfies(pred, tbl[id])}

\* C27: after build, findNodes(pred) returns exactly the nodes of the AST
\* that carry a range and satisfy pred, each of them once, also when two
\* distinct nodes carry equal ranges.
C27_FindNodesComplete ==
    (lastOp.op = "findNodes" /\ IndexBuilt) =>
        /\ {lastOp.ret[i] : i \in 1..Len(lastOp.ret)}
              = RangedSatisfying(ast.nodes, lastOp.arg)
        /\ \A i, j \in 1..Len(lastOp.ret) : lastOp.ret[i] = lastOp.ret[j] => i = j

\* A query inside a symbol nested in a multi-line list returned the symbol,
\* the smallest of the two nodes that contain the position.
C7_Witness ==
    /\ lastOp.op = "getNodeAtPosition"
    /\ IndexBuilt
    /\ lastOp.ret # 0
    /\ ast.nodes[lastOp.ret].type = "symbol"
    /\ \E id \in Indexed :
          /\ id # lastOp.ret
          /\ ast.nodes[id].type = "list"
          /\ ast.nodes[id].position[1] # ast.nodes[id].position[3]
          /\ IsPositionInRange(lastOp.arg, ast.nodes[id].position)

(***************************************************************************)
(* HQLDocument: the controller of one document (renameProvider.ts).        *)
(* hist is a history of the run, no field of the program:                  *)
(*   parses   the calls of parse() since the last accepted update (or the  *)
(*            construction), parsed the text the last of them was given,   *)
(*   burst    the accepted updates since the last call of parse(),         *)
(*   coalesced  the value burst had when parse() was last called,          *)
(*   threw    what parse(this.content) threw in the last call of parse(),  *)
(*            <<>> when it returned,                                       *)
(*   top      the highest version delivered so far, topText the text that  *)
(*            was first delivered with it.                                 *)
(* lastOp.nth counts the queries since the last other operation, 2         *)
(* standing for two or more.                                               *)
(***************************************************************************)

\* The results Math.random() may give generateScopeId.
ScopeIds == {<<"a">>, <<"b">>}

\* HQLDocument.parse() after parse(this.content) gave r: the try block when
\* nothing was thrown, the catch block otherwise.
Parsed_Mutant(r, scopeIds) ==
    IF r.thrown = <<>>
    THEN [ast |-> Ast(r.ast), parseError |-> <<>>,
          astIndex |-> BuildIndex(Ast(r.ast)),
          symbolTable |-> BuildSymbolTable(Ast(r.ast), scopeIds),
          walk |-> ScopeWalk(Ast(r.ast), scopeIds),
          cache |-> r.cache, thrown |-> r.thrown]
    ELSE [ast |-> Ast(<<>>), parseError |-> r.thrown,
          astIndex |-> ClearedIndex, symbolTable |-> NewSymbolTable,
          walk |-> <<>>, cache |-> r.cache, thrown |-> r.thrown]

Parsed(r, scopeIds) ==
    IF r.thrown = <<>>
    THEN [ast |-> Ast(r.ast), parseError |-> <<>>,
          astIndex |-> BuildIndex(Ast(r.ast)),
          symbolTable |-> BuildSymbolTable(Ast(r.ast), scopeIds),
          walk |-> ScopeWalk(Ast(r.ast), scopeIds),
          cache |-> r.cache, thrown |-> r.thrown]
    ELSE [ast |-> NullAst, parseError |-> r.thrown,
          astIndex |-> ClearedIndex, symbolTable |-> NewSymbolTable,
          walk |-> <<>>, cache |-> r.cache, thrown |-> r.thrown]

\* HQLDocument.parse(): the fields it assigns and the parse cache afterwards.
ParseDocument(text, cache, time, scopeIds) == Parsed(Parse(cache, text, time), scopeIds)

\* The sequences of scope ids a run of the pipeline may draw when parse gave r.
ScopeIdChoices(r) == [1..LetForms(r.ast) -> ScopeIds]

\* The results a call of HQLDocument.parse() may have.
ParseOutcomes(r) == {Parsed(r, scopeIds) : scopeIds \in ScopeIdChoices(r)}

\* new HQLDocument(document) left the fields d.
ConstructedAs(v, text, time, d) ==
    /\ version = v
    /\ content = text
    /\ lineOffsets = UndefinedOffsets
    /\ dirty = FALSE
    /\ ast = d.ast
    /\ parseError = d.parseError
    /\ astIndex = d.astIndex
    /\ symbolTable = d.symbolTable
    /\ parseCache = d.cache
    /\ now = time
    /\ server = Idle
    /\ hist = [parses |-> 1, parsed |-> text, burst |-> 0, coalesced |-> 0,
               threw |-> d.thrown, top |-> v, topText |-> text, walk |-> d.walk]
    /\ lastOp = [op |-> "new", arg |-> v, ret |-> 0]

\* new HQLDocument(document) in a process whose parse cache is cache.
Constructed(v, text, cache, time) ==
    \E d \in ParseOutcomes(Parse(cache, text, time)) : ConstructedAs(v, text, time, d)

\* this.parse() assigns the fields d.
AssignFields(d) ==
    /\ ast' = d.ast
    /\ parseError' = d.parseError
    /\ astIndex' = d.astIndex
    /\ symbolTable' = d.symbolTable
    /\ parseCache' = d.cache

Assign(d) ==
    /\ AssignFields(d)
    /\ hist' = [hist EXCEPT !.parses = @ + 1, !.parsed = content, !.burst = 0,
                            !.coalesced = hist.burst, !.threw = d.thrown,
                            !.walk = d.walk]

\* this.parse()
DocParse == \E d \in ParseOutcomes(Parse(parseCache, content, now)) : Assign(d)

EnsureParsed_Mutant ==
    /\ DocParse
    /\ dirty' = FALSE

EnsureParsed ==
    IF dirty
    THEN /\ DocParse
         /\ dirty' = FALSE
    ELSE UNCHANGED <<dirty, ast, parseError, astIndex, symbolTable, parseCache, hist>>

IsStale_Mutant(v) == v < version

\* update's guard: document.version <= this.version
IsStale(v) == v <= version

\* update(document), delivered with version v and the text
Update(v, text) ==
    /\ IF IsStale(v)
       THEN /\ UNCHANGED <<version, content, lineOffsets, dirty>>
            /\ hist' = [hist EXCEPT !.top = IF v > hist.top THEN v ELSE @,
                                    !.topText = IF v > hist.top THEN text ELSE @]
            /\ lastOp' = [op |-> "update", arg |-> <<v, text>>, ret |-> "ignored"]
       ELSE /\ version' = v
            /\ content' = text
            /\ lineOffsets' = UndefinedOffsets
            /\ dirty' = TRUE
            /\ hist' = [hist EXCEPT !.parses = 0, !.burst = @ + 1,
                                    !.top = IF v > hist.top THEN v ELSE @,
                                    !.topText = IF v > hist.top THEN text ELSE @]
            /\ lastOp' = [op |-> "update", arg |-> <<v, text>>, ret |-> "accepted"]
    /\ UNCHANGED <<ast, parseError, astIndex, symbolTable, parseCache, now, server>>

Queries == {"getAST", "getParseError", "getSymbolTable", "getNodeAtPosition",
            "findNodes"}

\* The record of a query: the nth in a row.
Asked(op, arg, ret) ==
    [op |-> op, arg |-> arg, ret |-> ret,
     nth |-> IF lastOp.op \in Queries THEN 2 ELSE 1]

GetAST ==
    /\ EnsureParsed
    /\ lastOp' = Asked("getAST", 0, ast')
    /\ UNCHANGED <<version, content, lineOffsets, now, server>>

GetParseError ==
    /\ EnsureParsed
    /\ lastOp' = Asked("getParseError", 0, parseError')
    /\ UNCHANGED <<version, content, lineOffsets, now, server>>

GetSymbolTable ==
    /\ EnsureParsed
    /\ lastOp' = Asked("getSymbolTable", 0, symbolTable')
    /\ UNCHANGED <<version, content, lineOffsets, now, server>>

GetNodeAtPosition(position) ==
    /\ EnsureParsed
    /\ lastOp' = Asked("getNodeAtPosition", position,
                       IndexNodeAtPosition(astIndex', position))
    /\ UNCHANGED <<version, content, lineOffsets, now, server>>

FindNodes(predicate) ==
    /\ EnsureParsed
    /\ lastOp' = Asked("findNodes", predicate, IndexFindNodes(astIndex', predicate))
    /\ UNCHANGED <<version, content, lineOffsets, now, server>>

\* Time passes between two calls.
Tick(ms) ==
    /\ now' = now + ms
    /\ UNCHANGED <<version, content, lineOffsets, dirty, ast, parseError, astIndex,
                   symbolTable, parseCache, server, hist, lastOp>>

(***************************************************************************)
(* SpecSym: a document is constructed in a fresh process from a text of    *)
(* one of two families and is then queried.                                *)
(*   DefnCallDocs  (defn f (params) body) followed by one call (f args)    *)
(*   DefDocs       up to MaxDefs top-level (def name value) forms          *)
(***************************************************************************)

MaxDefs == 2

Sp == <<" ">>
Parens(inner) == <<"(">> \o inner \o <<")">>

FunctionNames == {<<"f">>, <<"s", "q">>}
ParamLists == {<<>>, <<"x">>, <<"x", " ", "y">>}
Bodies == {<<"x">>, <<"1">>, Parens(<<"*", " ", "x", " ", "x">>)}
Arguments == {<<>>, <<" ", "5">>, <<" ", "5", " ", "x">>}
Separators == {Sp, <<LF>>}

DefnCallDocs ==
    {Parens(DefnName \o Sp \o f \o Sp \o Parens(params) \o Sp \o body)
         \o sep \o Parens(f \o args) :
       f \in FunctionNames, params \in ParamLists, body \in Bodies,
       args \in Arguments, sep \in Separators}

DefNames == {<<"x">>, <<"y">>}
DefValues == {<<"1">>, <<"x">>, Parens(<<"+", " ", "y", " ", "1">>),
              Parens(LetName \o Sp \o Parens(<<"x", " ", "1">>) \o Sp \o <<"x">>)}
DefForms == {Parens(DefName \o Sp \o name \o Sp \o value) :
                name \in DefNames, value \in DefValues}

RECURSIVE Joined(_)
Joined(forms) ==
    IF Len(forms) = 1 THEN forms[1] ELSE forms[1] \o Sp \o Joined(Tail(forms))

DefDocs == {Joined(forms) : forms \in UNION {[1..n -> DefForms] : n \in 1..MaxDefs}}

\* Documents with enums, dotted names, typed and defaulted parameters, and
\* let and defn forms next to and inside one another.
EnumDocs ==
    {Parens(DefenumName \o Sp \o <<"C">> \o Sp \o v) \o Sp \o use :
       v \in {<<"r">>, <<"r", " ", "g">>},
       use \in {<<"r">>, <<"C">>, <<"C", ".", "r">>}}

ParamDocs ==
    {Parens(DefnName \o Sp \o <<"f">> \o Sp
            \o Parens(n \o <<":", " ">> \o t \o Sp \o m \o <<" ", "=", " ">> \o v)
            \o Sp \o m) :
       n \in {<<"a">>, <<"n">>}, t \in {<<"I", "n", "t">>, <<"T">>},
       m \in {<<"b">>, <<"m">>}, v \in {<<"1">>, <<"x">>, Parens(<<"g">>)}}

LetOf(name) == Parens(LetName \o Sp \o Parens(name \o <<" ", "1">>) \o Sp \o name)

LetDocs ==
    {LetOf(a) : a \in DefNames}
    \cup {LetOf(a) \o Sp \o LetOf(b) : a \in DefNames, b \in DefNames}
    \cup {Parens(DefnName \o Sp \o <<"f">> \o Sp \o Parens(<<>>) \o Sp
                 \o LetOf(a) \o Sp \o LetOf(b)) : a \in DefNames, b \in DefNames}

NestedForms ==
    {<<"x">>, Parens(<<"g", " ", "x">>), LetOf(<<"y">>),
     Parens(DefnName \o Sp \o <<"g">> \o Sp \o Parens(<<"y">>) \o Sp \o <<"y">>)}

NestedDocs ==
    {Parens(DefnName \o Sp \o <<"f">> \o Sp \o Parens(<<"x">>) \o Sp
            \o first \o Sp \o <<"x">>) \o rest :
       first \in NestedForms, rest \in {<<>>, <<" ", "f", ".", "x">>}}

\* Documents with let forms whose binding values are symbols or calls, whose
\* binding names are no symbols, or that bind the name of a top-level def.
LetIn(bindings, body) == Parens(LetName \o Sp \o Parens(bindings) \o Sp \o body)

BindingDocs ==
    {Parens(DefnName \o Sp \o <<"f">> \o Sp \o Parens(<<"x">>) \o Sp
            \o LetIn(<<"y", " ">> \o v, b)) :
       v \in {<<"x">>, <<"1">>, Parens(<<"g", " ", "x">>)}, b \in {<<"y">>, <<"x">>}}
    \cup {<<"(", "d", "e", "f", " ", "x", " ", "1", ")", " ">> \o use
              \o LetIn(n \o Sp \o v, <<"x">>) \o rest :
            use \in {<<>>, <<"x", " ">>},
            n \in {<<"x">>, <<"y">>, <<"1">>, Parens(<<"a">>)},
            v \in {<<"x">>, <<"2">>},
            rest \in {<<>>, <<" ", "x">>}}
    \cup {LetIn(<<"y", " ", "x", " ", "z">>, <<"y">>)}

ScopeDocs == EnumDocs \cup ParamDocs \cup LetDocs \cup NestedDocs \cup BindingDocs

SymTexts == DefnCallDocs \cup DefDocs \cup ScopeDocs

\* The positions of the lines 0 and 1 and of the characters of the text.
SymPositions(text) == [line : 0..1, character : 0..Len(text)]

InitSym == \E text \in SymTexts : Constructed(1, text, <<>>, 0)

\* A query of a parsed document changes none of its fields, so one query per
\* constructed document reaches every state a longer run of queries reaches.
NextSym ==
    /\ lastOp.op = "new"
    /\ \/ GetAST
       \/ GetParseError
       \/ GetSymbolTable
       \/ \E p \in SymPositions(content) : GetNodeAtPosition(p)
       \/ \E pred \in Predicates : FindNodes(pred)

SpecSym == InitSym /\ [][NextSym]_vars

\* Is the document a top-level (defn f (params) body) followed by one call
\* whose head is the Symbol f?
IsDefnCall(tbl) ==
    LET top == TopLevel(tbl)
    IN  /\ Len(top) = 2
        /\ tbl[top[1]].type = "list"
        /\ Len(tbl[top[1]].elements) = 4
        /\ IsSymbolNamed(tbl, tbl[top[1]].elements[1], DefnName)
        /\ tbl[tbl[top[1]].elements[2]].type = "symbol"
        /\ tbl[tbl[top[1]].elements[3]].type = "list"
        /\ tbl[top[2]].type = "list"
        /\ tbl[top[2]].elements # <<>>
        /\ IsSymbolNamed(tbl, tbl[top[2]].elements[1],
                         tbl[tbl[top[1]].elements[2]].name)

DefinedFunction(tbl) == tbl[tbl[TopLevel(tbl)[1]].elements[2]].name
CallSiteNode(tbl) == tbl[TopLevel(tbl)[2]].elements[1]

\* The positions of the characters of the call-site token: the name that
\* follows the last opening parenthesis of the text.
CallSitePositions(text, f) ==
    LET open == CHOOSE k \in 1..Len(text) :
                    text[k] = "(" /\ \A j \in (k + 1)..Len(text) : text[j] # "("
    IN  {PositionAtWith(text, ComputeLineOffsets(text), o) :
            o \in open..(open + Len(f) - 1)}

\* C9: for a document that is a top-level (defn f (params) body) followed by
\* one call (f args), the built symbol table holds a function entry f whose
\* references are exactly one node, the Symbol f of the call site, and
\* getNodeAtPosition at the call-site token returns that node.
C9_OneReference ==
    (~ast.null /\ IsDefnCall(ast.nodes)) =>
        LET f == DefinedFunction(ast.nodes)
            call == CallSiteNode(ast.nodes)
        IN  /\ MapHas(symbolTable.symbols, f)
            /\ MapGet(symbolTable.symbols, f).kind = "function"
            /\ MapGet(symbolTable.symbols, f).references = <<call>>
            /\ (lastOp.op = "getNodeAtPosition"
                /\ lastOp.arg \in CallSitePositions(content, f))
                  => lastOp.ret = call

\* Is the document made only of top-level (def name value) forms?
IsDefOnly(tbl) ==
    /\ tbl # <<>>
    /\ \A i \in 1..Len(TopLevel(tbl)) :
          LET form == tbl[TopLevel(tbl)[i]]
          IN  /\ form.type = "list"
              /\ Len(form.elements) = 3
              /\ IsSymbolNamed(tbl, form.elements[1], DefName)
              /\ tbl[form.elements[2]].type = "symbol"

\* The top-level def forms of the name, in document order.
DefsOf(tbl, name) ==
    SelectSeq(TopLevel(tbl), LAMBDA id : tbl[tbl[id].elements[2]].name = name)

\* C10: for a document made only of top-level def forms, the symbol map
\* holds exactly one entry under each defined bare name, its definition node
\* is the last top-level def form of that name, and no error is raised.
C10_LastDefinitionWins ==
    (~dirty /\ content \in DefDocs) =>
        /\ parseError = <<>>
        /\ ~ast.null
        /\ IsDefOnly(ast.nodes)
        /\ \A i \in 1..Len(TopLevel(ast.nodes)) :
              LET name == ast.nodes[ast.nodes[TopLevel(ast.nodes)[i]].elements[2]].name
                  defs == DefsOf(ast.nodes, name)
              IN  /\ Cardinality({k \in 1..Len(symbolTable.symbols) :
                                     symbolTable.symbols[k].key = name}) = 1
                  /\ MapGet(symbolTable.symbols, name).node = defs[Len(defs)]

\* C11: after a build, every reference recorded in a SymbolInfo is a Symbol
\* node whose name is the name of that SymbolInfo.
C11_ReferencesMatchName ==
    (~dirty /\ ~ast.null) =>
        \A i \in 1..Len(symbolTable.symbols) :
            LET info == symbolTable.symbols[i].value
            IN  \A k \in 1..Len(info.references) :
                    /\ ast.nodes[info.references[k]].type = "symbol"
                    /\ ast.nodes[info.references[k]].name = info.name

\* C12: after a build, a parameter or enum value is stored under the key
\* parentScope.name; a variable, function or enum registered while no scope
\* was active is stored under its bare name; a variable registered while a
\* scope was active is stored under the key parentScope.name and not under
\* its bare name.
C12_ScopedKeys ==
    (~dirty /\ ~ast.null) =>
        \A i \in 1..Len(symbolTable.symbols) :
            LET key == symbolTable.symbols[i].key
                info == symbolTable.symbols[i].value
            IN  /\ info.kind \in {"parameter", "enum-value"}
                      => key = ScopedName(info.parentScope, info.name)
                /\ (info.kind \in {"variable", "function", "enum"}
                       /\ info.parentScope = <<>>) => key = info.name
                /\ (info.kind = "variable" /\ info.parentScope # <<>>)
                      => (key # info.name
                          /\ key = ScopedName(info.parentScope, info.name))

\* Is the list a parameter list of the shape (n: T m = v)?
IsNamedTypedDefaulted(tbl, id) ==
    LET els == tbl[id].elements
    IN  /\ tbl[id].type = "list"
        /\ Len(els) = 5
        /\ \A k \in 1..4 : tbl[els[k]].type = "symbol"
        /\ Len(tbl[els[1]].name) > 1
        /\ tbl[els[1]].name[Len(tbl[els[1]].name)] = ":"
        /\ \A k \in 2..3 : /\ tbl[els[k]].name[Len(tbl[els[k]].name)] # ":"
                            /\ tbl[els[k]].name # <<"=">>
        /\ tbl[els[4]].name = <<"=">>

\* C13: for a parameter list of the shape (n: T m = v), the parameters
\* extractFunctionParams gives the function are exactly two, in order: n,
\* named, of type T, and m, not named, with the node v as default value.
C13_NamedTypedThenDefault ==
    (~dirty /\ ~ast.null) =>
        \A i \in 1..Len(symbolTable.symbols) :
            LET info == symbolTable.symbols[i].value
                list == ast.nodes[info.node].elements[3]
                els == ast.nodes[list].elements
            IN  (info.kind = "function" /\ IsNamedTypedDefaulted(ast.nodes, list)) =>
                    /\ Len(info.params) = 2
                    /\ info.params[1].name
                          = SubSeq(ast.nodes[els[1]].name, 1,
                                   Len(ast.nodes[els[1]].name) - 1)
                    /\ info.params[1].isNamed
                    /\ info.params[1].type = ast.nodes[els[2]].name
                    /\ info.params[2].name = ast.nodes[els[3]].name
                    /\ ~info.params[2].isNamed
                    /\ info.params[2].defaultValue = els[5]

\* Is the node a let form as pass 2 recognises it?
IsLetForm(tbl, id) ==
    /\ tbl[id].type = "list"
    /\ Len(tbl[id].elements) >= 2
    /\ IsSymbolNamed(tbl, tbl[id].elements[1], LetName)
    /\ tbl[tbl[id].elements[2]].type = "list"

\* Is the node a defn form as pass 2 recognises it?
IsDefnForm(tbl, id) ==
    /\ tbl[id].type = "list"
    /\ Len(tbl[id].elements) >= 2
    /\ IsSymbolNamed(tbl, tbl[id].elements[1], DefnName)
    /\ tbl[tbl[id].elements[2]].type = "symbol"

\* The nodes pass 2 walked, and the scope that was active at an event.
Walked(log) == {log[k].node : k \in 1..Len(log)}
ScopeAt(log, id, at) ==
    log[CHOOSE k \in 1..Len(log) : log[k].node = id /\ log[k].at = at].scope

\* The scopes of the table that let forms made.
LetScopes(st) ==
    {st.scopes[i].key : i \in {j \in 1..Len(st.scopes) :
         /\ Len(st.scopes[j].key) > Len(LetPrefix)
         /\ SubSeq(st.scopes[j].key, 1, Len(LetPrefix)) = LetPrefix}}

\* C14: the let forms pass 2 processed in one build received pairwise
\* different scope ids: there are as many let scopes as let forms walked.
C14_DistinctLetScopes ==
    (~dirty /\ ~ast.null) =>
        Cardinality(LetScopes(symbolTable))
           = Cardinality({id \in Walked(hist.walk) : IsLetForm(ast.nodes, id)})

\* C20: in pass 2 the walk of every body element of a defn form f starts
\* with f as the active scope, and the walk of every defn or let form ends
\* with the scope active that was active when it started.
C20_ScopeRestored ==
    (~dirty /\ ~ast.null) =>
        \A id \in Walked(hist.walk) :
            /\ IsDefnForm(ast.nodes, id) =>
                  \A k \in 4..Len(ast.nodes[id].elements) :
                      ScopeAt(hist.walk, ast.nodes[id].elements[k], "start")
                         = ast.nodes[ast.nodes[id].elements[2]].name
            /\ (IsDefnForm(ast.nodes, id) \/ IsLetForm(ast.nodes, id)) =>
                  ScopeAt(hist.walk, id, "end") = ScopeAt(hist.walk, id, "start")

\* The values of the complete name/value pairs of the binding list of a let
\* form, and its body forms.
BindingValues(tbl, id) ==
    LET bindings == tbl[tbl[id].elements[2]].elements
    IN  {bindings[k] : k \in {j \in 1..Len(bindings) : j % 2 = 0}}

BodyForms(tbl, id) == {tbl[id].elements[k] : k \in 3..Len(tbl[id].elements)}

\* The defn form the node is an element of, 0 when its parent is none.
EnclosingDefn(tbl, id) ==
    IF tbl[id].parent # 0 /\ IsDefnForm(tbl, tbl[id].parent) THEN tbl[id].parent
    ELSE 0

\* C21: in pass 2 the walk of a binding value of a let form starts with the
\* scope active that was active when the walk of the let form started; and
\* when the let form is an element of (defn f (x) ...), a Symbol x that is a
\* binding value is a reference of f's parameter x.
C21_BindingValueScope ==
    (~dirty /\ ~ast.null) =>
        \A id \in Walked(hist.walk) :
            IsLetForm(ast.nodes, id) =>
                \A v \in BindingValues(ast.nodes, id) \cap Walked(hist.walk) :
                    /\ ScopeAt(hist.walk, v, "start") = ScopeAt(hist.walk, id, "start")
                    /\ LET defn == EnclosingDefn(ast.nodes, id)
                           f == ast.nodes[ast.nodes[defn].elements[2]].name
                           key == ScopedName(f, ast.nodes[v].name)
                       IN  (/\ defn # 0
                            /\ ast.nodes[v].type = "symbol"
                            /\ MapHas(symbolTable.symbols, key)
                            /\ MapGet(symbolTable.symbols, key).kind = "parameter")
                           => Includes(MapGet(symbolTable.symbols, key).references, v)

\* How often the walk of pass 2 started on the node.
Walks(log, id) ==
    Cardinality({k \in 1..Len(log) : log[k].node = id /\ log[k].at = "start"})

\* How often the node occurs in the reference lists of the table.
ReferenceCount(st, id) ==
    Len(SelectSeq(Flat([i \in 1..Len(st.symbols) |-> st.symbols[i].value.references]),
                  LAMBDA r : r = id))

\* C22: for every let form pass 2 processed, the value of every complete
\* pair of its binding list and every body form is walked exactly once,
\* whatever the name element of the pair is; and no Symbol node occurs twice
\* in the reference lists.
C22_LetWalkedOnce ==
    (~dirty /\ ~ast.null) =>
        /\ \A id \in Walked(hist.walk) :
              IsLetForm(ast.nodes, id) =>
                  \A n \in BindingValues(ast.nodes, id) \cup BodyForms(ast.nodes, id) :
                      Walks(hist.walk, n) = 1
        /\ \A n \in 1..Len(ast.nodes) :
              ast.nodes[n].type = "symbol" => ReferenceCount(symbolTable, n) <= 1

\* The name of the first element of a def, defn or defenum form.
HeadName(tbl, id) == tbl[tbl[id].elements[1]].name

\* The top-level forms pass 1 registers under the name, in document order.
TopDefinitions(tbl, name) ==
    SelectSeq(TopLevel(tbl),
              LAMBDA id : /\ IsDefOrDefnNode(tbl, id)
                          /\ Len(tbl[id].elements)
                                >= (IF HeadName(tbl, id) = DefnName THEN 4 ELSE 3)
                          /\ IsSymbolNamed(tbl, tbl[id].elements[2], name))

KindOf(tbl, id) ==
    IF HeadName(tbl, id) = DefName THEN "variable"
    ELSE IF HeadName(tbl, id) = DefnName THEN "function"
    ELSE "enum"

\* The let forms pass 2 processed that bind the name.
LetsBinding(tbl, log, name) ==
    {id \in Walked(log) :
        /\ IsLetForm(tbl, id)
        /\ LET bindings == tbl[tbl[id].elements[2]].elements
           IN  \E k \in 1..Len(bindings) :
                   k % 2 = 1 /\ k < Len(bindings)
                   /\ IsSymbolNamed(tbl, bindings[k], name)}

\* The position in the log of the start of the walk of the node.
StartOf(log, id) == CHOOSE k \in 1..Len(log) : log[k].node = id /\ log[k].at = "start"

\* C23: when a document has a top-level def, defn or defenum of a name and
\* a let form that binds the same name, the entry under the bare name has,
\* after the build, the kind and the definition node of the last such
\* top-level form, and it holds as references the Symbol nodes of that name
\* that pass 2 looked up before it came to a let form binding the name.
C23_LetKeepsTopLevel ==
    (~dirty /\ ~ast.null) =>
        \A i \in 1..Len(TopLevel(ast.nodes)) :
            LET top == TopLevel(ast.nodes)[i]
                name == ast.nodes[ast.nodes[top].elements[2]].name
                defs == TopDefinitions(ast.nodes, name)
                lets == LetsBinding(ast.nodes, hist.walk, name)
            IN  (/\ IsDefOrDefnNode(ast.nodes, top)
                 /\ ast.nodes[ast.nodes[top].elements[2]].type = "symbol"
                 /\ ~IsSpecialSymbol(name)
                 /\ defs # <<>>
                 /\ lets # {}) =>
                    /\ MapHas(symbolTable.symbols, name)
                    /\ MapGet(symbolTable.symbols, name).kind
                          = KindOf(ast.nodes, defs[Len(defs)])
                    /\ MapGet(symbolTable.symbols, name).node = defs[Len(defs)]
                    /\ \A n \in Walked(hist.walk) :
                          (/\ IsSymbolNamed(ast.nodes, n, name)
                           /\ \A id \in lets :
                                  StartOf(hist.walk, n) < StartOf(hist.walk, id))
                          => Includes(MapGet(symbolTable.symbols, name).references, n)

(***************************************************************************)
(* Spec: one HQLDocument in a fresh process.  It is constructed with a     *)
(* text, receives updates with any version up to MaxVersion in any order,  *)
(* answers queries and positionAt, and time passes in steps of the cache   *)
(* age.  The texts are two symbols, a list and a text the parser rejects.  *)
(***************************************************************************)

MaxVersion == 3
MaxTicks == 1

DocTexts == {<<"a", "B">>, <<"b", "!">>, <<"(", "a", ")">>, <<"(">>}
DocPositions == {Pos(0, 1), Pos(0, 3)}
DocPredicates == {"any", "list"}
DocOffsets == {1}
TickMs == MAX_CACHE_AGE_MS

Init == \E text \in DocTexts : Constructed(1, text, <<>>, 0)

Next ==
    \/ \E v \in 1..MaxVersion, text \in DocTexts : Update(v, text)
    \/ GetAST
    \/ GetParseError
    \/ GetSymbolTable
    \/ \E p \in DocPositions : GetNodeAtPosition(p)
    \/ \E pred \in DocPredicates : FindNodes(pred)
    \/ \E o \in DocOffsets : PositionAt(o)
    \/ (now < MaxTicks * TickMs /\ Tick(TickMs))

Spec == Init /\ [][Next]_vars

\* C1: an accepted update runs no parse, index build or symbol-table build;
\* after a burst of accepted updates the pipeline runs exactly once, inside
\* the first query that follows, on the text of the last update, and later
\* queries do not run it again, whether that run returned or threw.
C1_LazySingleParse ==
    /\ hist.parses <= 1
    /\ (lastOp.op = "update" /\ lastOp.ret = "accepted") => hist.parses = 0
    /\ lastOp.op \in Queries => (hist.parses = 1 /\ hist.parsed = hist.topText)

\* Two queries in a row have followed a burst of two accepted updates whose
\* last text the parser rejects.
C1_Witness ==
    /\ lastOp.op \in Queries
    /\ lastOp.nth = 2
    /\ hist.coalesced >= 2
    /\ hist.parses = 1
    /\ hist.threw # <<>>

\* C2: an update whose version is not greater than the held one changes no
\* field of the document; the held version never decreases, and the held
\* version and text are the highest version delivered so far and the text
\* first delivered with it.
C2_StaleUpdateIgnored ==
    [][/\ (lastOp'.op = "update" /\ lastOp'.arg[1] <= version)
             => UNCHANGED <<version, content, lineOffsets, dirty, ast, parseError,
                            symbolTable, astIndex>>
       /\ version' >= version
       /\ version' = hist'.top
       /\ content' = hist'.topText]_vars

\* An update with an older version and another text was delivered to a parsed
\* document whose line table is cached.
C2_Witness ==
    /\ lastOp.op = "update"
    /\ lastOp.arg[1] < version
    /\ lastOp.arg[2] # content
    /\ lineOffsets.defined
    /\ ~dirty
    /\ ~ast.null

\* The value a query returns when the document's fields are those of d.
Returned(op, arg, d) ==
    CASE op = "getAST" -> d.ast
      [] op = "getParseError" -> d.parseError
      [] op = "getSymbolTable" -> d.symbolTable
      [] op = "getNodeAtPosition" -> IndexNodeAtPosition(d.astIndex, arg)
      [] op = "findNodes" -> IndexFindNodes(d.astIndex, arg)

\* C3: what a query returns, and the AST, index and symbol table the document
\* holds after it, are the pipeline's result for the text of the most
\* recently accepted update: a result of parsing, indexing and building the
\* symbol table of that text from scratch.
C3_QueriesSeeLatestText ==
    lastOp.op \in Queries =>
        \E d \in ParseOutcomes(Parse(<<>>, content, 0)) :
            /\ ast = d.ast
            /\ parseError = d.parseError
            /\ astIndex = d.astIndex
            /\ symbolTable = d.symbolTable
            /\ lastOp.ret = Returned(lastOp.op, lastOp.arg, d)

\* C4: when the pipeline threw, the query has returned, the thrown error is
\* the parse error, the AST is none, the symbol table holds no symbols and no
\* scopes, no position has a node and no predicate finds a node.
C4_ThrowClearsEverything ==
    (lastOp.op \in Queries /\ hist.threw # <<>>) =>
        /\ parseError = hist.threw
        /\ ast = NullAst
        /\ symbolTable.symbols = <<>>
        /\ symbolTable.scopes = <<>>
        /\ \A p \in DocPositions : IndexNodeAtPosition(astIndex, p) = 0
        /\ \A pred \in Predicates : IndexFindNodes(astIndex, pred) = <<>>
        /\ lastOp.ret = Returned(lastOp.op, lastOp.arg,
                                 [ast |-> NullAst, parseError |-> hist.threw,
                                  symbolTable |-> NewSymbolTable,
                                  astIndex |-> ClearedIndex])

\* A position is looked up in a document whose text was parsed before and
\* was then replaced by a text the parser rejects.
C4_Witness ==
    /\ lastOp.op = "getNodeAtPosition"
    /\ hist.threw # <<>>
    /\ version >= 2
    /\ parseCache # <<>>
    /\ lastOp.ret = 0

(***************************************************************************)
(* DiagnosticsProvider (completionProvider.ts).  A diagnostic is a record  *)
(* [severity, range, message, name, expected, got]: message is the fixed   *)
(* part of the text, name and the two numbers are what is interpolated.    *)
(***************************************************************************)

Diagnostic(severity, range, message, name, expected, got) ==
    [severity |-> severity, range |-> range, message |-> message, name |-> name,
     expected |-> expected, got |-> got]

\* handleParseError: error is <<message, line, column>>, a ParseError, which
\* carries a position.
HandleParseError(error) ==
    LET line == Max(0, error[2] - 1)
        column == Max(0, error[3] - 1)
    IN  <<Diagnostic("Error", Range(line, column, line, column + 1), error[1],
                     <<>>, 0, 0)>>

\* addDiagnostic: what is pushed, nothing for a node without a position.
AddDiagnostic(tbl, id, message, severity, name, expected, got) ==
    IF tbl[id].position # NoRange
    THEN <<Diagnostic(severity, tbl[id].position, message, name, expected, got)>>
    ELSE <<>>

\* DiagnosticsProvider.isSpecialSymbol: its list is, entry for entry, the list
\* of HQLDocument.isSpecialSymbol.
DiagnosticsIsSpecialSymbol(name) == name \in SpecialSymbols

\* The ids of the nodes of the table, in the order of the recursive walks.
NodeIds(tbl) == [i \in 1..Len(tbl) |-> i]

\* checkSymbolResolution over the whole AST
CheckSymbolResolution(tbl, st) ==
    LET undefined == SelectSeq(NodeIds(tbl),
                         LAMBDA id : /\ tbl[id].type = "symbol"
                                     /\ ~DiagnosticsIsSpecialSymbol(tbl[id].name)
                                     /\ FindSymbol(st, tbl[id].name) = <<>>
                                     /\ tbl[id].position # NoRange)
    IN  [k \in 1..Len(undefined) |->
            Diagnostic("Warning", tbl[undefined[k]].position, "Undefined symbol: ",
                       tbl[undefined[k]].name, 0, 0)]

\* checkSpecialFormRequirements(node, formName)
CheckSpecialFormRequirements(tbl, id, formName) ==
    LET els == tbl[id].elements
        error(node, message) == AddDiagnostic(tbl, node, message, "Error", <<>>, 0, 0)
    IN  IF formName = DefName
        THEN IF Len(els) < 3 THEN error(id, "def requires a name and a value")
             ELSE <<>>
        ELSE IF formName = DefnName
        THEN IF Len(els) < 4
             THEN error(id, "defn requires a name, parameter list, and body")
             ELSE IF tbl[els[3]].type # "list"
             THEN error(id, "defn requires a parameter list (second argument)")
             ELSE <<>>
        ELSE IF formName = <<"f", "n">>
        THEN IF Len(els) < 3 THEN error(id, "fn requires a parameter list and body")
             ELSE IF tbl[els[2]].type # "list"
             THEN error(id, "fn requires a parameter list (first argument)")
             ELSE <<>>
        ELSE IF formName = <<"i", "f">>
        THEN IF Len(els) < 3
             THEN error(id, "if requires a condition and then-branch")
             ELSE IF Len(els) < 4
             THEN AddDiagnostic(tbl, id, "if should have an else-branch", "Warning",
                                <<>>, 0, 0)
             ELSE <<>>
        ELSE IF formName = LetName
        THEN IF Len(els) < 2 THEN error(id, "let requires a binding vector")
             ELSE IF tbl[els[2]].type # "list"
             THEN error(id, "let requires a binding vector (first argument)")
             ELSE IF Len(tbl[els[2]].elements) % 2 # 0
             THEN error(els[2], "let bindings must be pairs of name and value")
             ELSE <<>>
        ELSE <<>>

\* The loop over the arguments of a call of a function with named
\* parameters, from the 0-based index i of the elements els.
RECURSIVE CheckNamedArguments(_, _, _, _)
CheckNamedArguments(tbl, els, i, params) ==
    IF i >= Len(els) THEN <<>>
    ELSE IF tbl[els[i + 1]].type = "symbol"
            /\ tbl[els[i + 1]].name[Len(tbl[els[i + 1]].name)] = ":"
    THEN LET argName == tbl[els[i + 1]].name
             paramName == SubSeq(argName, 1, Len(argName) - 1)
         IN  (IF \E k \in 1..Len(params) : params[k].name = paramName THEN <<>>
              ELSE AddDiagnostic(tbl, els[i + 1], "Unknown named parameter: ",
                                 "Warning", paramName, 0, 0))
             \o CheckNamedArguments(tbl, els, i + 2, params)
    ELSE CheckNamedArguments(tbl, els, i + 1, params)

\* checkFunctionCall(node, fnName) once the symbol was looked up: found is
\* the result of findSymbol.
CheckFunctionCallOf(tbl, id, fnName, st, found) ==
    IF found = <<>> THEN <<>>
    ELSE IF MapGet(st.symbols, found[1]).kind # "function" THEN <<>>
    ELSE LET params == MapGet(st.symbols, found[1]).params
             required == Len(SelectSeq(params, LAMBDA q : q.defaultValue = 0))
             optional == Len(SelectSeq(params, LAMBDA q : q.defaultValue # 0))
             providedArgs == Len(tbl[id].elements) - 1
         IN  (IF providedArgs < required
              THEN AddDiagnostic(tbl, id, "Function called with too few arguments",
                                 "Error", fnName, required, providedArgs)
              ELSE IF providedArgs > required + optional
              THEN AddDiagnostic(tbl, id, "Function called with too many arguments",
                                 "Warning", fnName, required + optional, providedArgs)
              ELSE <<>>)
             \o (IF \E k \in 1..Len(params) : params[k].isNamed
                 THEN CheckNamedArguments(tbl, tbl[id].elements, 1, params)
                 ELSE <<>>)

CheckFunctionCall(tbl, id, fnName, st) ==
    CheckFunctionCallOf(tbl, id, fnName, st, FindSymbol(st, fnName))

\* What checkFunctionCalls pushes for the list node id itself.
CheckCallNode(tbl, id, st) ==
    IF tbl[id].elements # <<>> /\ tbl[tbl[id].elements[1]].type = "symbol"
    THEN IF DiagnosticsIsSpecialSymbol(tbl[tbl[id].elements[1]].name)
         THEN CheckSpecialFormRequirements(tbl, id, tbl[tbl[id].elements[1]].name)
         ELSE CheckFunctionCall(tbl, id, tbl[tbl[id].elements[1]].name, st)
    ELSE <<>>

ListIds(tbl) == SelectSeq(NodeIds(tbl), LAMBDA id : tbl[id].type = "list")

\* checkFunctionCalls over the whole AST
CheckFunctionCalls(tbl, st) ==
    Flat([k \in 1..Len(ListIds(tbl)) |-> CheckCallNode(tbl, ListIds(tbl)[k], st)])

\* checkSemanticIssues over the whole AST
CheckSemanticIssues(tbl) ==
    Flat([k \in 1..Len(ListIds(tbl)) |->
             IF tbl[ListIds(tbl)[k]].elements = <<>>
             THEN AddDiagnostic(tbl, ListIds(tbl)[k],
                                "Empty list is not a valid expression", "Warning",
                                <<>>, 0, 0)
             ELSE <<>>])

\* analyzeAST: the three checks, then the limit.
Limited(diagnostics, maxProblems) ==
    IF Len(diagnostics) > maxProblems THEN SubSeq(diagnostics, 1, maxProblems)
    ELSE diagnostics

AnalyzeAST(tbl, st, maxProblems) ==
    Limited(CheckSymbolResolution(tbl, st) \o CheckFunctionCalls(tbl, st)
               \o CheckSemanticIssues(tbl),
            maxProblems)

\* provideDiagnostics(document, maxProblems), given what getParseError,
\* getAST and getSymbolTable return: the diagnostics it sends and returns.
ProvideDiagnostics(error, a, st, maxProblems) ==
    IF error # <<>> THEN HandleParseError(error)
    ELSE IF ~a.null THEN AnalyzeAST(a.nodes, st, maxProblems)
    ELSE <<>>

(***************************************************************************)
(* RenameProvider and HoverProvider (renameProvider.ts).  What a provider  *)
(* gives back is a record with the flag raised: TRUE when the call ended   *)
(* in an exception instead of a value.                                     *)
(***************************************************************************)

\* RenameProvider.isBuiltInSymbol: the names of its own list.
BuiltInSymbols ==
    {<<"d", "e", "f">>, <<"d", "e", "f", "n">>, <<"f", "n">>, <<"i", "f">>,
     <<"c", "o", "n", "d">>, <<"l", "e", "t">>, <<"f", "o", "r">>,
     <<"p", "r", "i", "n", "t">>, <<"s", "t", "r">>,
     <<"v", "e", "c", "t", "o", "r">>, <<"l", "i", "s", "t">>,
     <<"h", "a", "s", "h", "-", "m", "a", "p">>,
     <<"k", "e", "y", "w", "o", "r", "d">>, <<"n", "e", "w">>,
     <<"g", "e", "t">>, <<"s", "e", "t">>, <<"r", "e", "t", "u", "r", "n">>,
     <<"i", "m", "p", "o", "r", "t">>, <<"e", "x", "p", "o", "r", "t">>,
     <<"d", "e", "f", "e", "n", "u", "m">>, <<"-", ">">>, <<"+">>, <<"-">>,
     <<"*">>, <<"/">>, <<"<">>, <<">">>, <<"<", "=">>, <<">", "=">>, <<"=">>,
     <<"!", "=">>, <<"t", "r", "u", "e">>, <<"f", "a", "l", "s", "e">>,
     <<"n", "u", "l", "l">>, <<"n", "i", "l">>, <<":">>, <<".">>}

IsBuiltInSymbol_Mutant(name) == name \in BuiltInSymbols \ {<<"+">>, <<"i", "f">>}

IsBuiltInSymbol(name) == name \in BuiltInSymbols

\* collectSymbolLocations(symbol, document): the ranges collected, and
\* whether reading listNode.elements.length raised a TypeError, which it
\* does when the node of a function, variable or enum is no list: a Symbol
\* node has no elements.
CollectSymbolLocations(symbol, tbl) ==
    LET node == symbol.node
        positioned == node # 0 /\ tbl[node].position # NoRange
        named == symbol.kind \in {"function", "variable", "enum"}
        els == tbl[node].elements
        definition ==
            IF ~positioned THEN <<>>
            ELSE IF named
            THEN IF /\ Len(els) >= 2
                    /\ tbl[els[2]].type = "symbol"
                    /\ tbl[els[2]].position # NoRange
                 THEN <<tbl[els[2]].position>>
                 ELSE <<>>
            ELSE <<tbl[node].position>>
        ranged == SelectSeq(symbol.references, LAMBDA r : tbl[r].position # NoRange)
    IN  [raised |-> positioned /\ named /\ tbl[node].type # "list",
         locations |-> definition \o [k \in 1..Len(ranged) |-> tbl[ranged[k]].position]]

\* A WorkspaceEdit is the sequence of its TextEdits for the one URI; null is
\* the record NoEdits.
TextEdit(range, newText) == [range |-> range, newText |-> newText]
NoEdits == [raised |-> FALSE, edits |-> <<>>]
TypeError == [raised |-> TRUE, edits |-> <<>>]

\* provideRenameEdits(document, position, newName), given the index and the
\* symbol table the document hands out.
ProvideRenameEdits(idx, st, position, newName) ==
    LET node == IndexNodeAtPosition(idx, position)
        symbolName == idx.nodes[node].name
        symbol == FindSymbol(st, symbolName)
        found == CollectSymbolLocations(MapGet(st.symbols, symbol[1]), idx.nodes)
    IN  IF node = 0 THEN NoEdits
        ELSE IF idx.nodes[node].type # "symbol" THEN NoEdits
        ELSE IF IsBuiltInSymbol(symbolName) THEN NoEdits
        ELSE IF symbol = <<>> THEN NoEdits
        ELSE IF found.raised THEN TypeError
        ELSE IF found.locations = <<>> THEN NoEdits
        ELSE [raised |-> FALSE,
              edits |-> [k \in 1..Len(found.locations) |->
                            TextEdit(found.locations[k], newName)]]

\* The keys of builtInFunctionDocs and of builtInTypeDocs.
BuiltInFunctionDocs ==
    {<<"d", "e", "f">>, <<"d", "e", "f", "n">>, <<"f", "n">>,
     <<"i", "m", "p", "o", "r", "t">>, <<"e", "x", "p", "o", "r", "t">>,
     <<"d", "e", "f", "e", "n", "u", "m">>, <<"i", "f">>,
     <<"c", "o", "n", "d">>, <<"l", "e", "t">>, <<"f", "o", "r">>,
     <<"p", "r", "i", "n", "t">>, <<"s", "t", "r">>,
     <<"v", "e", "c", "t", "o", "r">>, <<"l", "i", "s", "t">>,
     <<"h", "a", "s", "h", "-", "m", "a", "p">>,
     <<"k", "e", "y", "w", "o", "r", "d">>, <<"n", "e", "w">>,
     <<"g", "e", "t">>, <<"s", "e", "t">>, <<"r", "e", "t", "u", "r", "n">>,
     <<"+">>, <<"-">>, <<"*">>, <<"/">>, <<"<">>, <<">">>, <<"<", "=">>,
     <<">", "=">>, <<"=">>, <<"!", "=">>, <<"-", ">">>}

BuiltInTypeDocs ==
    {<<"S", "t", "r", "i", "n", "g">>, <<"N", "u", "m", "b", "e", "r">>,
     <<"B", "o", "o", "l", "e", "a", "n">>, <<"O", "b", "j", "e", "c", "t">>,
     <<"A", "r", "r", "a", "y">>, <<"F", "u", "n", "c", "t", "i", "o", "n">>,
     <<"D", "a", "t", "e">>, <<"R", "e", "g", "E", "x", "p">>,
     <<"M", "a", "p">>, <<"S", "e", "t">>,
     <<"P", "r", "o", "m", "i", "s", "e">>, <<"I", "n", "t">>,
     <<"F", "l", "o", "a", "t">>, <<"V", "o", "i", "d">>}

\* The two tables are object literals: docs[name] is also truthy for the
\* properties every object inherits.
ObjectPrototypeNames ==
    {<<"c", "o", "n", "s", "t", "r", "u", "c", "t", "o", "r">>,
     <<"h", "a", "s", "O", "w", "n", "P", "r", "o", "p", "e", "r", "t", "y">>,
     <<"i", "s", "P", "r", "o", "t", "o", "t", "y", "p", "e", "O", "f">>,
     <<"p", "r", "o", "p", "e", "r", "t", "y", "I", "s", "E", "n", "u", "m", "e", "r", "a", "b", "l", "e">>,
     <<"t", "o", "L", "o", "c", "a", "l", "e", "S", "t", "r", "i", "n", "g">>,
     <<"t", "o", "S", "t", "r", "i", "n", "g">>,
     <<"v", "a", "l", "u", "e", "O", "f">>,
     <<"_", "_", "p", "r", "o", "t", "o", "_", "_">>,
     <<"_", "_", "d", "e", "f", "i", "n", "e", "G", "e", "t", "t", "e", "r", "_", "_">>,
     <<"_", "_", "d", "e", "f", "i", "n", "e", "S", "e", "t", "t", "e", "r", "_", "_">>,
     <<"_", "_", "l", "o", "o", "k", "u", "p", "G", "e", "t", "t", "e", "r", "_", "_">>,
     <<"_", "_", "l", "o", "o", "k", "u", "p", "S", "e", "t", "t", "e", "r", "_", "_">>}

HasDoc(docs, name) == name \in docs \/ name \in ObjectPrototypeNames

\* A MarkupContent is a record [heading, label, parts]: the name after "# ",
\* the fixed text that follows, and what is interpolated after it.
Markdown(heading, label, parts) == [heading |-> heading, label |-> label, parts |-> parts]

\* What a truthy property contributes: a string as a part, nothing otherwise.
Truthy(s) == IF s = <<>> THEN <<>> ELSE <<s>>

\* The text of one parameter in the hover of a function.
ParamStr(p) ==
    p.name \o (IF p.type # <<>> THEN <<":", " ">> \o p.type ELSE <<>>)
           \o (IF p.defaultValue # 0 THEN <<" ", "=", " ", ".", ".", ".">> ELSE <<>>)

\* getSymbolInfoHoverContents(symbol)
GetSymbolInfoHoverContents(symbol) ==
    IF symbol.kind = "variable"
    THEN Markdown(symbol.name, "Variable", Truthy(symbol.type))
    ELSE IF symbol.kind = "function"
    THEN Markdown(symbol.name, "Function",
                  [k \in 1..Len(symbol.params) |-> ParamStr(symbol.params[k])]
                     \o (IF symbol.type # <<>> THEN <<<<"-", ">">>, symbol.type>>
                         ELSE <<>>))
    ELSE IF symbol.kind = "enum"
    THEN Markdown(symbol.name, "Enum", symbol.enumValues)
    ELSE IF symbol.kind = "enum-value"
    THEN Markdown(symbol.name, "Enum Value", Truthy(symbol.parentScope))
    ELSE IF symbol.kind = "parameter"
    THEN Markdown(symbol.name, "Function Parameter",
                  Truthy(symbol.type) \o Truthy(symbol.parentScope))
    ELSE Markdown(symbol.name, "", <<>>)

\* The result of a get...HoverContents: <<contents>>, or <<>> for null.
GetSymbolHoverContents(node, st) ==
    IF HasDoc(BuiltInFunctionDocs, node.name)
    THEN <<Markdown(node.name, "builtInFunctionDocs", <<>>)>>
    ELSE IF HasDoc(BuiltInTypeDocs, node.name)
    THEN <<Markdown(node.name, "builtInTypeDocs", <<>>)>>
    ELSE IF FindSymbol(st, node.name) # <<>>
    THEN <<GetSymbolInfoHoverContents(MapGet(st.symbols, FindSymbol(st, node.name)[1]))>>
    ELSE <<>>

GetListHoverContents(node, tbl, st) ==
    IF node.elements # <<>> /\ tbl[node.elements[1]].type = "symbol"
    THEN LET formName == tbl[node.elements[1]].name
             symbol == FindSymbol(st, formName)
         IN  IF HasDoc(BuiltInFunctionDocs, formName)
             THEN <<Markdown(formName, "builtInFunctionDocs", <<>>)>>
             ELSE IF symbol # <<>> /\ MapGet(st.symbols, symbol[1]).kind = "function"
             THEN <<GetSymbolInfoHoverContents(MapGet(st.symbols, symbol[1]))>>
             ELSE <<>>
    ELSE <<>>

GetLiteralHoverContents(node) ==
    IF node.kind = "string" THEN <<Markdown(<<>>, "String", <<node.name>>)>>
    ELSE IF node.kind = "number" THEN <<Markdown(<<>>, "Number", <<node.name>>)>>
    ELSE IF node.kind = "boolean" THEN <<Markdown(<<>>, "Boolean", <<node.name>>)>>
    ELSE IF node.kind = "null" THEN <<Markdown(<<>>, "Null", <<>>)>>
    ELSE <<>>

GetHoverContents(node, tbl, st) ==
    IF node.type = "symbol" THEN GetSymbolHoverContents(node, st)
    ELSE IF node.type = "list" THEN GetListHoverContents(node, tbl, st)
    ELSE IF node.type = "literal" THEN GetLiteralHoverContents(node)
    ELSE <<>>

\* provideHover(document, position): [raised, hover], hover being <<>> for
\* null and <<[contents, range]>> otherwise.
NoHover == [raised |-> FALSE, hover |-> <<>>]

ProvideHover(idx, st, position) ==
    LET node == IndexNodeAtPosition(idx, position)
        contents == GetHoverContents(idx.nodes[node], idx.nodes, st)
    IN  IF node = 0 THEN NoHover
        ELSE IF contents = <<>> THEN NoHover
        ELSE [raised |-> FALSE,
              hover |-> <<[contents |-> contents[1],
                           range |-> idx.nodes[node].position]>>]

(***************************************************************************)
(* FormattingProvider (formattingProvider.ts).  options is a record        *)
(* [indentSize, insertSpaces].  Formatting a node gives [raised, text]:    *)
(* raised is TRUE when the call never returns a text, which happens for a  *)
(* def form of fewer than three and a defn form of fewer than four         *)
(* elements, where formatList and the formatter of the form call one       *)
(* another on the same node until the stack is exhausted.                  *)
(* Of formatList the branches modelled are the empty list, def, defn and   *)
(* the default form; Covered tells the documents that take no other.       *)
(***************************************************************************)

Tab == "\t"
Formatted(text) == [raised |-> FALSE, text |-> text]
RangeError == [raised |-> TRUE, text |-> <<>>]

\* getIndent(level, options)
GetIndent(level, options) ==
    [k \in 1..(level * (IF options.insertSpaces THEN options.indentSize ELSE 1)) |->
        IF options.insertSpaces THEN " " ELSE Tab]

\* value.replace(/"/g, '\\"')
RECURSIVE EscapeQuotes(_)
EscapeQuotes(s) ==
    IF s = <<>> THEN <<>>
    ELSE (IF Head(s) = Quote THEN <<Backslash, Quote>> ELSE <<Head(s)>>)
         \o EscapeQuotes(Tail(s))

\* formatLiteral(node)
FormatLiteral(node) ==
    IF node.kind = "string" THEN <<Quote>> \o EscapeQuotes(node.name) \o <<Quote>>
    ELSE IF node.kind = "null" THEN <<"n", "i", "l">>
    ELSE node.name

\* isObjectLiteral(node), for a list that is not empty
IsObjectLiteral(tbl, id) ==
    LET els == tbl[id].elements IN
    /\ ~IsSymbolNamed(tbl, els[1], <<"h", "a", "s", "h", "-", "m", "a", "p">>)
    /\ Len(els) >= 3
    /\ Len(els) % 2 = 1
    /\ \A i \in 2..Len(els) :
           i % 2 = 0 => tbl[els[i]].type = "literal" /\ tbl[els[i]].kind = "string"

\* The names formatList has a formatter for, def and defn aside.
OtherSpecialForms ==
    {<<"l", "e", "t">>, <<"i", "f">>, <<"c", "o", "n", "d">>, <<"f", "o", "r">>,
     <<"f", "n">>, <<"d", "e", "f", "e", "n", "u", "m">>,
     <<"h", "a", "s", "h", "-", "m", "a", "p">>}

\* The switch of formatList on the name of the first element.
FormOf(tbl, id) ==
    IF tbl[tbl[id].elements[1]].type = "symbol" THEN tbl[tbl[id].elements[1]].name
    ELSE <<>>

\* Does formatting the document keep to the modelled branches of formatList?
Covered(tbl) ==
    \A id \in 1..Len(tbl) :
        tbl[id].type = "list" /\ tbl[id].elements # <<>> =>
            /\ ~tbl[id].isArrayLiteral
            /\ ~IsObjectLiteral(tbl, id)
            /\ FormOf(tbl, id) \notin OtherSpecialForms

\* containsMultilineNodes(nodes)
RECURSIVE ContainsMultilineNodes(_, _)
ContainsMultilineNodes(tbl, ids) ==
    \E k \in 1..Len(ids) :
        /\ tbl[ids[k]].type = "list"
        /\ \/ Len(tbl[ids[k]].elements) > 3
           \/ ContainsMultilineNodes(tbl, tbl[ids[k]].elements)

\* estimateLineLength(node, indentLevel, options)
RECURSIVE EstimateFrom(_, _, _)
EstimateFrom(tbl, els, i) ==
    IF i > Len(els) THEN 0
    ELSE LET element == tbl[els[i]] IN
         (IF element.type = "symbol" THEN Len(element.name) + 1
          ELSE IF element.type = "literal"
          THEN IF element.kind = "string" THEN Len(element.name) + 3
               ELSE Len(FormatLiteral(element)) + 1
          ELSE 10)
         + EstimateFrom(tbl, els, i + 1)

EstimateLineLength(tbl, id, indentLevel, options) ==
    IF \E k \in 1..Len(tbl[id].elements) :
           /\ tbl[tbl[id].elements[k]].type = "list"
           /\ Len(tbl[tbl[id].elements[k]].elements) > 2
    THEN 1000
    ELSE Len(GetIndent(indentLevel, options)) + 2 + EstimateFrom(tbl, tbl[id].elements, 1)

\* texts.join(sep)
RECURSIVE Join(_, _)
Join(texts, sep) ==
    IF texts = <<>> THEN <<>>
    ELSE IF Len(texts) = 1 THEN texts[1]
    ELSE texts[1] \o sep \o Join(Tail(texts), sep)

Raises(results) == \E k \in 1..Len(results) : results[k].raised
Indented(results, indent) == [k \in 1..Len(results) |-> indent \o results[k].text]
Texts(results) == [k \in 1..Len(results) |-> results[k].text]

\* formatNode(node, indentLevel, options) and formatList with formatDefForm
\* and formatDefnForm
RECURSIVE FormatNode(_, _, _, _)
RECURSIVE FormatList(_, _, _, _)
FormatAll(tbl, ids, indentLevel, options) ==
    [k \in 1..Len(ids) |-> FormatNode(tbl, ids[k], indentLevel, options)]

FormatDefForm(tbl, id, indentLevel, options) ==
    LET els == tbl[id].elements
        name == FormatNode(tbl, els[2], indentLevel, options)
        value == FormatNode(tbl, els[3], indentLevel + 1, options)
        head == <<"(", "d", "e", "f", " ">> \o name.text
    IN  IF Len(els) < 3 THEN RangeError
        ELSE IF name.raised \/ value.raised THEN RangeError
        ELSE IF Includes(value.text, LF)
        THEN Formatted(head \o <<LF>> \o GetIndent(indentLevel + 1, options)
                            \o value.text \o <<LF>>
                            \o GetIndent(indentLevel, options) \o <<")">>)
        ELSE Formatted(head \o <<" ">> \o value.text \o <<")">>)

FormatDefnForm(tbl, id, indentLevel, options) ==
    LET els == tbl[id].elements
        name == FormatNode(tbl, els[2], indentLevel, options)
        params == FormatNode(tbl, els[3], indentLevel, options)
        annotated == Len(els) > 4 /\ IsSymbolNamed(tbl, els[4], <<"-", ">">>)
        type == FormatNode(tbl, els[5], indentLevel, options)
        bodyStartIndex == IF annotated THEN 5 ELSE 3
        body == FormatAll(tbl, SubSeq(els, bodyStartIndex + 1, Len(els)),
                          indentLevel + 1, options)
        returnType == IF annotated THEN <<" ", "-", ">", " ">> \o type.text ELSE <<>>
    IN  IF Len(els) < 4 THEN RangeError
        ELSE IF name.raised \/ params.raised \/ (annotated /\ type.raised)
                \/ Raises(body)
        THEN RangeError
        ELSE Formatted(<<"(", "d", "e", "f", "n", " ">> \o name.text \o <<" ">>
                          \o params.text \o returnType \o <<LF>>
                          \o Join(Indented(body, GetIndent(indentLevel + 1, options)),
                                  <<LF>>)
                          \o <<LF>> \o GetIndent(indentLevel, options) \o <<")">>)

FormatDefault(tbl, id, indentLevel, options) ==
    LET els == tbl[id].elements
        firstElement == FormatNode(tbl, els[1], indentLevel, options)
        rest == FormatAll(tbl, Tail(els), indentLevel + 1, options)
        isShortForm == /\ Len(els) <= 3
                       /\ ~ContainsMultilineNodes(tbl, Tail(els))
                       /\ EstimateLineLength(tbl, id, indentLevel, options) <= 80
    IN  IF firstElement.raised \/ Raises(rest) THEN RangeError
        ELSE IF isShortForm
        THEN Formatted(<<"(">> \o firstElement.text \o <<" ">>
                          \o Join(Texts(rest), <<" ">>) \o <<")">>)
        ELSE Formatted(<<"(">> \o firstElement.text \o <<LF>>
                          \o Join(Indented(rest, GetIndent(indentLevel + 1, options)),
                                  <<LF>>)
                          \o <<LF>> \o GetIndent(indentLevel, options) \o <<")">>)

FormatList(tbl, id, indentLevel, options) ==
    CASE tbl[id].elements = <<>> -> Formatted(<<"(", ")">>)
      [] tbl[id].elements # <<>> /\ FormOf(tbl, id) = DefName ->
             FormatDefForm(tbl, id, indentLevel, options)
      [] tbl[id].elements # <<>> /\ FormOf(tbl, id) = DefnName ->
             FormatDefnForm(tbl, id, indentLevel, options)
      [] tbl[id].elements # <<>> /\ FormOf(tbl, id) \notin {DefName, DefnName}
                                     \cup OtherSpecialForms ->
             FormatDefault(tbl, id, indentLevel, options)

FormatNode(tbl, id, indentLevel, options) ==
    IF tbl[id].type = "symbol" THEN Formatted(tbl[id].name)
    ELSE IF tbl[id].type = "literal" THEN Formatted(FormatLiteral(tbl[id]))
    ELSE IF tbl[id].type = "list" THEN FormatList(tbl, id, indentLevel, options)
    ELSE Formatted(<<>>)

\* content.split('\n')
RECURSIVE SplitLines(_, _)
SplitLines(text, cur) ==
    IF text = <<>> THEN <<cur>>
    ELSE IF Head(text) = LF THEN <<cur>> \o SplitLines(Tail(text), <<>>)
    ELSE SplitLines(Tail(text), Append(cur, Head(text)))

\* line.trim(), over the white space of the texts of this model
Blank == {" ", Tab, CR, LF}
RECURSIVE TrimStart(_)
TrimStart(s) == IF s # <<>> /\ Head(s) \in Blank THEN TrimStart(Tail(s)) ELSE s
RECURSIVE TrimEnd(_)
TrimEnd(s) ==
    IF s # <<>> /\ s[Len(s)] \in Blank THEN TrimEnd(SubSeq(s, 1, Len(s) - 1)) ELSE s
Trim(s) == TrimEnd(TrimStart(s))

StartsWithComment(line) == Len(line) >= 2 /\ line[1] = ";" /\ line[2] = ";"

\* The loop of formatDocument that keeps the comment lines the content
\* begins with: the lines pushed, from the 0-based index i on.
RECURSIVE InitialComments(_, _)
InitialComments(lines, i) ==
    IF i >= Len(lines) THEN <<>>
    ELSE LET line == Trim(lines[i + 1]) IN
         IF StartsWithComment(line) THEN <<line>> \o InitialComments(lines, i + 1)
         ELSE IF /\ line = <<>>
                 /\ i < Len(lines) - 1
                 /\ StartsWithComment(Trim(lines[i + 2]))
         THEN <<<<>>>> \o InitialComments(lines, i + 1)
         ELSE IF line # <<>> THEN <<>>
         ELSE InitialComments(lines, i + 1)

\* formatDocument(content, ast, options)
FormatDocument(text, tbl, options) ==
    LET comments == InitialComments(SplitLines(text, <<>>), 0)
        forms == FormatAll(tbl, TopLevel(tbl), 0, options)
        result == comments \o (IF comments # <<>> THEN <<<<>>>> ELSE <<>>)
                     \o Flat([k \in 1..Len(forms) |-> <<forms[k].text, <<>>>>])
    IN  IF Raises(forms) THEN RangeError ELSE Formatted(Join(result, <<LF>>))

\* provideDocumentFormatting(document, options): [raised, edits]; the one
\* edit replaces everything from 0:0 to a position beyond any text.
WholeDocument == <<0, 0, "MAX_VALUE", "MAX_VALUE">>

ProvideDocumentFormatting_Mutant(text, a, options) ==
    LET formatted == FormatDocument(text, a.nodes, options) IN
    IF formatted.raised THEN [raised |-> TRUE, edits |-> <<>>]
    ELSE [raised |-> FALSE, edits |-> <<TextEdit(WholeDocument, formatted.text)>>]

ProvideDocumentFormatting(text, a, options) ==
    IF a.null THEN NoEdits
    ELSE LET formatted == FormatDocument(text, a.nodes, options) IN
         IF formatted.raised THEN [raised |-> TRUE, edits |-> <<>>]
         ELSE [raised |-> FALSE, edits |-> <<TextEdit(WholeDocument, formatted.text)>>]

(***************************************************************************)
(* SpecProviders: one document controller, constructed in a fresh process  *)
(* from one of ProviderTexts, updated with one of UpdateTexts and handed   *)
(* to the four providers.  Each provider queries the document, which       *)
(* parses first when an update is pending.                                 *)
(***************************************************************************)

MaxProviderVersion == 2
MaxProblems == 2

FailingTexts ==
    {<<"(">>, <<")">>, <<"a", ")">>, <<"(", "a">>,
     <<"a", LF, " ", "b", " ", ")">>, <<"(", "d", "e", "f", " ", "i", "f", " ", "1", ")", " ", "i", "f", " ", ")">>}

BuiltInDefiningTexts ==
    {<<"(", "d", "e", "f", " ", "i", "f", " ", "1", ")", " ", "i", "f">>,
     <<"(", "d", "e", "f", "n", " ", "+", " ", "(", "x", ")", " ", "x", ")", " ", "(", "+", " ", "1", ")">>,
     <<"(", "d", "e", "f", " ", "+", " ", "1", ")", " ", "(", "+", " ", "+", " ", "2", ")">>,
     <<"(", "d", "e", "f", "n", " ", "s", "t", "r", " ", "(", "x", ")", " ", "s", "t", "r", ")", " ", "(", "g", " ", "s", "t", "r", ")">>}

PlainTexts ==
    {<<>>, <<"x", " ", "y", " ", "z">>, <<"(", "d", "e", "f", " ", "x", " ", "1", ")", " ", "x">>,
     <<"(", "d", "e", "f", "n", " ", "f", " ", "(", "x", ")", " ", "x", ")", " ", "(", "f", " ", "1", ")">>,
     <<"(", "f", " ", "(", ")", ")">>, <<"(", "d", "e", "f", " ", "x", ")">>,
     <<"(", "d", "e", "f", "n", " ", "f", " ", "(", "x", ")", " ", "-", ">", " ", "I", "n", "t", " ", "x", ")", " ", "(", "g", " ", "1", " ", "(", "f", " ", "2", " ", "3", " ", "4", ")", " ", "5", ")">>,
     <<Quote, "s", Quote, " ", "1", " ", "n", "i", "l">>}

ProviderTexts == FailingTexts \cup BuiltInDefiningTexts \cup PlainTexts
UpdateTexts == {<<")">>, <<"(", "d", "e", "f", " ", "i", "f", " ", "1", ")", " ", "i", "f">>, <<"x", " ", "y", " ", "z">>}

ProviderPositions(text) == [line : 0..1, character : 0..Len(text)]
NewNames == {<<"z">>, <<"i", "f">>}
FormatOptions == {[indentSize |-> 2, insertSpaces |-> TRUE],
                  [indentSize |-> 4, insertSpaces |-> FALSE]}

InitProviders == \E text \in ProviderTexts : Constructed(1, text, <<>>, 0)

\* renameProvider.provideRenameEdits(document, position, newName)
RenameRequest ==
    /\ EnsureParsed
    /\ \E position \in ProviderPositions(content), newName \in NewNames :
           lastOp' = [op |-> "provideRenameEdits", arg |-> <<position, newName>>,
                      ret |-> ProvideRenameEdits(astIndex', symbolTable', position,
                                                 newName)]
    /\ UNCHANGED <<version, content, lineOffsets, now, server>>

\* hoverProvider.provideHover(document, position)
HoverRequest ==
    /\ EnsureParsed
    /\ \E position \in ProviderPositions(content) :
           lastOp' = [op |-> "provideHover", arg |-> position,
                      ret |-> ProvideHover(astIndex', symbolTable', position)]
    /\ UNCHANGED <<version, content, lineOffsets, now, server>>

\* formattingProvider.provideDocumentFormatting(document, options), for the
\* documents the modelled branches of the formatter cover
FormattingRequest ==
    /\ EnsureParsed
    /\ Covered(ast'.nodes)
    /\ \E options \in FormatOptions :
           lastOp' = [op |-> "provideDocumentFormatting", arg |-> options,
                      ret |-> ProvideDocumentFormatting(content, ast', options)]
    /\ UNCHANGED <<version, content, lineOffsets, now, server>>

\* diagnosticsProvider.provideDiagnostics(document, maxProblems): the array
\* it hands to sendDiagnostics is the array it returns.
DiagnosticsRequest ==
    /\ EnsureParsed
    /\ \E maxProblems \in 0..MaxProblems :
           LET diagnostics == ProvideDiagnostics(parseError', ast', symbolTable',
                                                 maxProblems)
           IN  lastOp' = [op |-> "provideDiagnostics", arg |-> maxProblems,
                          ret |-> [returned |-> diagnostics, sent |-> diagnostics]]
    /\ UNCHANGED <<version, content, lineOffsets, now, server>>

\* A request leaves a parsed document as it is, so the requests that follow
\* a construction or an update reach every state a longer run of requests
\* reaches.
Requested == lastOp.op \notin {"new", "update"}

NextProviders ==
    \/ \E v \in 1..MaxProviderVersion, text \in UpdateTexts : Update(v, text)
    \/ ~Requested /\ RenameRequest
    \/ ~Requested /\ HoverRequest
    \/ ~Requested /\ FormattingRequest
    \/ ~Requested /\ DiagnosticsRequest

SpecProviders == InitProviders /\ [][NextProviders]_vars

\* The node a rename or hover request was aimed at, 0 for none.
RequestedNode ==
    IF lastOp.op = "provideRenameEdits"
    THEN IndexNodeAtPosition(astIndex, lastOp.arg[1])
    ELSE IF lastOp.op = "provideHover" THEN IndexNodeAtPosition(astIndex, lastOp.arg)
    ELSE 0

AtBuiltInSymbol ==
    /\ RequestedNode # 0
    /\ astIndex.nodes[RequestedNode].type = "symbol"
    /\ astIndex.nodes[RequestedNode].name \in SpecialSymbols

\* C15: whatever the document defines, no SymbolInfo of its symbol table has
\* a reference that is a Symbol node named by the built-in exclusion list, no
\* diagnostic reports such a name as an undefined symbol, and a rename
\* request at a Symbol node with such a name returns no edit.
C15_BuiltInsLeftAlone ==
    /\ (~dirty /\ ~ast.null) =>
           \A i \in 1..Len(symbolTable.symbols) :
               \A k \in 1..Len(symbolTable.symbols[i].value.references) :
                   LET r == ast.nodes[symbolTable.symbols[i].value.references[k]]
                   IN  r.type = "symbol" => r.name \notin SpecialSymbols
    /\ lastOp.op = "provideDiagnostics" =>
           \A k \in 1..Len(lastOp.ret.sent) :
               lastOp.ret.sent[k].message = "Undefined symbol: "
                   => lastOp.ret.sent[k].name \notin SpecialSymbols
    /\ (lastOp.op = "provideRenameEdits" /\ AtBuiltInSymbol) => lastOp.ret = NoEdits

\* A rename request was aimed at a Symbol node with a name of the list in a
\* document that defines this name.
C15_Witness ==
    /\ lastOp.op = "provideRenameEdits"
    /\ AtBuiltInSymbol
    /\ MapHas(symbolTable.symbols, astIndex.nodes[RequestedNode].name)
    /\ lastOp.ret = NoEdits

\* The messages a ParseError can carry.
ParseErrorMessages == {"Unexpected closing delimiter", "Unclosed list"}

\* C16: for a document with the parse error <<m, l, c>> provideDiagnostics
\* returns one diagnostic and no more: an Error with the message m whose
\* range starts at line l, character c.  For a document that parsed it
\* returns no diagnostic of a parse error.
C16_ParseErrorDiagnostic ==
    lastOp.op = "provideDiagnostics" =>
        IF parseError # <<>>
        THEN /\ Len(lastOp.ret.returned) = 1
             /\ lastOp.ret.returned[1].severity = "Error"
             /\ lastOp.ret.returned[1].message = parseError[1]
             /\ Start(lastOp.ret.returned[1].range) = Pos(parseError[2], parseError[3])
        ELSE \A k \in 1..Len(lastOp.ret.returned) :
                 lastOp.ret.returned[k].message \notin ParseErrorMessages

\* C17: for a document whose parse failed, formatting returns no edit, hover
\* returns null, rename returns null, and none of the three raises.
C17_FailedParseNoOp ==
    (~dirty /\ ast.null) =>
        /\ lastOp.op = "provideDocumentFormatting" => lastOp.ret = NoEdits
        /\ lastOp.op = "provideHover" => lastOp.ret = NoHover
        /\ lastOp.op = "provideRenameEdits" => lastOp.ret = NoEdits

\* A document whose text was replaced by one that does not parse was asked
\* to format itself, and the request ran the parse that failed.
C17_Witness ==
    /\ lastOp.op = "provideDocumentFormatting"
    /\ ast.null
    /\ parseError # <<>>
    /\ version > 1
    /\ hist.parsed = content
    /\ lastOp.ret = NoEdits

\* C18: provideDiagnostics(document, maxProblems) returns and sends at most
\* maxProblems diagnostics.
C18_AtMostMaxProblems ==
    lastOp.op = "provideDiagnostics" =>
        /\ Len(lastOp.ret.returned) <= lastOp.arg
        /\ Len(lastOp.ret.sent) <= lastOp.arg

\* The defn forms the node lies in, nearest first.
RECURSIVE EnclosingDefns(_, _)
EnclosingDefns(tbl, id) ==
    IF tbl[id].parent = 0 THEN <<>>
    ELSE (IF IsDefnForm(tbl, tbl[id].parent) THEN <<tbl[id].parent>> ELSE <<>>)
         \o EnclosingDefns(tbl, tbl[id].parent)

\* The names of the parameters of a defn form.
ParameterNames(tbl, defn) ==
    IF Len(tbl[defn].elements) >= 3 /\ tbl[tbl[defn].elements[3]].type = "list"
    THEN LET params == ExtractFunctionParams(tbl, tbl[defn].elements[3])
         IN  {params[k].name : k \in 1..Len(params)}
    ELSE {}

\* Is the node a Symbol that names a parameter of a defn form around it?
NamesOwnParameter(tbl, id) ==
    /\ tbl[id].type = "symbol"
    /\ \E k \in 1..Len(EnclosingDefns(tbl, id)) :
           /\ tbl[id].name \in ParameterNames(tbl, EnclosingDefns(tbl, id)[k])
           /\ id # tbl[EnclosingDefns(tbl, id)[k]].elements[2]

\* C24: for a document that parses, no diagnostic of provideDiagnostics is
\* an undefined-symbol warning for a Symbol node that names a parameter of
\* a defn form around it.
C24_ParametersDefined ==
    (lastOp.op = "provideDiagnostics" /\ ~ast.null) =>
        \A k \in 1..Len(lastOp.ret.returned) :
            LET d == lastOp.ret.returned[k]
            IN  d.message = "Undefined symbol: " =>
                    ~\E id \in 1..Len(ast.nodes) :
                        /\ ast.nodes[id].position = d.range
                        /\ ast.nodes[id].name = d.name
                        /\ NamesOwnParameter(ast.nodes, id)

\* Do two ranges have no character in common?  Equal ranges do not.
Disjoint(a, b) ==
    /\ a # b
    /\ \/ LexLeq(End(a), Start(b))
       \/ LexLeq(End(b), Start(a))

\* C25: the text edits provideRenameEdits returns have ranges that are
\* pairwise different and do not overlap.
C25_EditsDisjoint ==
    lastOp.op = "provideRenameEdits" =>
        \A i \in 1..Len(lastOp.ret.edits) :
            \A j \in (i + 1)..Len(lastOp.ret.edits) :
                Disjoint(lastOp.ret.edits[i].range, lastOp.ret.edits[j].range)

\* The 1-based indexes of the opening delimiters of a text without strings,
\* and the index of the closing delimiter that matches the one at k.
OpeningIndexes(text) ==
    SelectSeq([i \in 1..Len(text) |-> i], LAMBDA i : text[i] \in Openers)

RECURSIVE MatchingFrom(_, _, _)
MatchingFrom(text, j, depth) ==
    IF text[j] \in Openers THEN MatchingFrom(text, j + 1, depth + 1)
    ELSE IF text[j] \in Closers
    THEN IF depth = 1 THEN j ELSE MatchingFrom(text, j + 1, depth - 1)
    ELSE MatchingFrom(text, j + 1, depth)

MatchingCloser(text, k) == MatchingFrom(text, k, 0)

\* The range from the opening delimiter at index k to just after its
\* matching closing delimiter.
DelimitedRange(text, k) ==
    LET offs == ComputeLineOffsets(text)
        start == PositionAtWith(text, offs, k - 1)
        end == PositionAtWith(text, offs, MatchingCloser(text, k))
    IN  Range(start.line, start.character, end.line, end.character)

\* C26: a List node that has a range has the range from its own opening
\* delimiter to just after its own closing delimiter, and the range of a
\* list inside another lies inside the range of that other list.
C26_ListRanges ==
    (~dirty /\ ~ast.null) =>
        LET lists == ListIds(ast.nodes)
            opens == OpeningIndexes(content)
        IN  \A k \in 1..Len(lists) :
                LET node == ast.nodes[lists[k]]
                IN  node.position # NoRange =>
                        /\ node.position = DelimitedRange(content, opens[k])
                        /\ (node.parent # 0 /\ ast.nodes[node.parent].position # NoRange)
                              => /\ LexLeq(Start(ast.nodes[node.parent].position),
                                           Start(node.position))
                                 /\ LexLeq(End(node.position),
                                           End(ast.nodes[node.parent].position))

(***************************************************************************)
(* SpecServer: HQLServer with its DocumentManager, for one URI.            *)
(* server is a record:                                                     *)
(*   hasConfigurationCapability                                            *)
(*   docs      the TextDocument objects made so far, one per open          *)
(*             notification, each [version, text]; a change notification   *)
(*             updates the open one in place                               *)
(*   open      the index of the object the TextDocuments store holds for   *)
(*             the URI, 0 when the document is not open                    *)
(*   held      does DocumentManager.documents hold a controller for the    *)
(*             URI?  When it does, the controller's fields are the         *)
(*             variables version, content, ... of this module              *)
(*   settings  documentSettings.get(uri): the index of a promise, 0 for    *)
(*             none                                                        *)
(*   promises  the configuration requests made: Pending, Rejected, or the  *)
(*             maxNumberOfProblems of the settings the client answered     *)
(*   waiting   the validateTextDocument calls at their await, in the order *)
(*             they were started, each [doc, promise]                      *)
(*   ready     the calls whose await has completed and that run before the *)
(*             next notification is handled, each [doc, settings]          *)
(*   published the diagnostics last sent for the URI                       *)
(*   closed    has a close notification been handled and no open or change *)
(*             notification since?  (bookkeeping, no field of the server)  *)
(***************************************************************************)

MaxOpens == 2
MaxDocVersion == 2
MaxPending == 2

Pending == 0 - 1
Rejected == 0 - 2
DefaultMaxNumberOfProblems == 1000
ClientSettings == {1, DefaultMaxNumberOfProblems}
ServerTexts == {<<"a">>, <<"(">>}

NothingPublished == [sent |-> FALSE, diagnostics |-> <<>>]
Published(diagnostics) == [sent |-> TRUE, diagnostics |-> diagnostics]

InitServer ==
    /\ server \in [hasConfigurationCapability : BOOLEAN, docs : {<<>>}, open : {0},
                   held : {FALSE}, settings : {0}, promises : {<<>>},
                   waiting : {<<>>}, ready : {<<>>}, published : {NothingPublished},
                   closed : {FALSE}]
    /\ version = 0
    /\ content = <<>>
    /\ lineOffsets = UndefinedOffsets
    /\ dirty = FALSE
    /\ ast = NullAst
    /\ parseError = <<>>
    /\ symbolTable = NewSymbolTable
    /\ astIndex = ClearedIndex
    /\ parseCache = <<>>
    /\ now = 0
    /\ hist = Idle
    /\ lastOp = [op |-> "start", arg |-> 0, ret |-> 0]

serverDocument == <<version, content, lineOffsets, dirty, ast, parseError,
                    symbolTable, astIndex, parseCache>>

\* validateTextDocument(textDocument) up to its await: getDocumentSettings
\* gives a promise, and the call goes on at once when the promise is settled
\* already.  sv is the server, doc the index of the TextDocument.
StartValidation(sv, doc) ==
    IF ~sv.hasConfigurationCapability
    THEN [sv EXCEPT !.ready = Append(@, [doc |-> doc,
                                         settings |-> DefaultMaxNumberOfProblems])]
    ELSE IF sv.settings = 0
    THEN [sv EXCEPT !.promises = Append(@, Pending),
                    !.settings = Len(sv.promises) + 1,
                    !.waiting = Append(@, [doc |-> doc,
                                           promise |-> Len(sv.promises) + 1])]
    ELSE IF sv.promises[sv.settings] = Pending
    THEN [sv EXCEPT !.waiting = Append(@, [doc |-> doc, promise |-> sv.settings])]
    ELSE IF sv.promises[sv.settings] = Rejected
    THEN sv
    ELSE [sv EXCEPT !.ready = Append(@, [doc |-> doc,
                                         settings |-> sv.promises[sv.settings]])]

\* A notification is handled when no continuation is left to run.
CanHandle == server.ready = <<>>
CanStart == Len(server.waiting) < MaxPending

\* documents.onDidOpen
DidOpen(text) ==
    /\ CanHandle /\ CanStart
    /\ server.open = 0
    /\ Len(server.docs) < MaxOpens
    /\ server' = StartValidation(
                     [server EXCEPT !.docs = Append(@, [version |-> 1, text |-> text]),
                                    !.open = Len(server.docs) + 1,
                                    !.closed = FALSE],
                     Len(server.docs) + 1)
    /\ lastOp' = [op |-> "didOpen", arg |-> text, ret |-> 0]
    /\ UNCHANGED serverDocument /\ UNCHANGED <<now, hist>>

\* documents.onDidChangeContent
DidChangeContent(text) ==
    /\ CanHandle /\ CanStart
    /\ server.open # 0
    /\ server.docs[server.open].version < MaxDocVersion
    /\ server' = StartValidation(
                     [server EXCEPT !.docs[server.open] =
                                        [version |-> @.version + 1, text |-> text],
                                    !.closed = FALSE],
                     server.open)
    /\ lastOp' = [op |-> "didChangeContent", arg |-> text, ret |-> 0]
    /\ UNCHANGED serverDocument /\ UNCHANGED <<now, hist>>

\* documents.onDidSave
DidSave ==
    /\ CanHandle /\ CanStart
    /\ server.open # 0
    /\ server' = StartValidation(server, server.open)
    /\ lastOp' = [op |-> "didSave", arg |-> 0, ret |-> 0]
    /\ UNCHANGED serverDocument /\ UNCHANGED <<now, hist>>

\* documents.onDidClose
DidClose ==
    /\ CanHandle
    /\ server.open # 0
    /\ server' = [server EXCEPT !.held = FALSE, !.settings = 0,
                                !.published = Published(<<>>),
                                !.open = 0, !.closed = TRUE]
    /\ lastOp' = [op |-> "didClose", arg |-> 0, ret |-> 0]
    /\ UNCHANGED serverDocument /\ UNCHANGED <<now, hist>>

\* The calls of waiting that await the promise p, and the others.
AwaitingPromise(p) == SelectSeq(server.waiting, LAMBDA w : w.promise = p)
AwaitingOthers(p) == SelectSeq(server.waiting, LAMBDA w : w.promise # p)

\* The client answers the configuration request p.
SettingsArrive(p, maxNumberOfProblems) ==
    /\ CanHandle
    /\ p \in 1..Len(server.promises)
    /\ server.promises[p] = Pending
    /\ server' = [server EXCEPT
                     !.promises[p] = maxNumberOfProblems,
                     !.waiting = AwaitingOthers(p),
                     !.ready = [k \in 1..Len(AwaitingPromise(p)) |->
                                   [doc |-> AwaitingPromise(p)[k].doc,
                                    settings |-> maxNumberOfProblems]]]
    /\ lastOp' = [op |-> "settings", arg |-> p, ret |-> 0]
    /\ UNCHANGED serverDocument /\ UNCHANGED <<now, hist>>

\* The configuration request p fails: the calls awaiting it end in their
\* catch block.
SettingsFail(p) ==
    /\ CanHandle
    /\ p \in 1..Len(server.promises)
    /\ server.promises[p] = Pending
    /\ server' = [server EXCEPT !.promises[p] = Rejected,
                                !.waiting = AwaitingOthers(p)]
    /\ lastOp' = [op |-> "settingsFailed", arg |-> p, ret |-> 0]
    /\ UNCHANGED serverDocument /\ UNCHANGED <<now, hist>>

\* validateTextDocument after its await, for the first call of ready:
\* documentManager.getDocument(textDocument) makes a controller or updates
\* the one held, provideDiagnostics queries it, which parses when the text is
\* new, and the diagnostics are sent.
ValidateTextDocument ==
    /\ server.ready # <<>>
    /\ LET call == Head(server.ready)
           textDocument == server.docs[call.doc]
           created == ~server.held
           updated == server.held /\ version < textDocument.version
           text == IF created \/ updated THEN textDocument.text ELSE content
       IN  /\ version' = (IF created \/ updated THEN textDocument.version ELSE version)
           /\ content' = text
           /\ lineOffsets' = (IF created \/ updated THEN UndefinedOffsets
                              ELSE lineOffsets)
           /\ dirty' = FALSE
           /\ IF created \/ updated \/ dirty
              THEN \E d \in ParseOutcomes(Parse(parseCache, text, now)) :
                       AssignFields(d)
              ELSE UNCHANGED <<ast, parseError, astIndex, symbolTable, parseCache>>
           /\ server' = [server EXCEPT
                            !.held = TRUE,
                            !.ready = Tail(@),
                            !.published = Published(ProvideDiagnostics(
                                parseError', ast', symbolTable', call.settings))]
           /\ lastOp' = [op |-> "validate", arg |-> call.doc, ret |-> 0]
    /\ UNCHANGED <<now, hist>>

NextServer ==
    \/ \E text \in ServerTexts : DidOpen(text)
    \/ \E text \in ServerTexts : DidChangeContent(text)
    \/ DidSave
    \/ DidClose
    \/ \E p \in 1..MaxOpens, n \in ClientSettings : SettingsArrive(p, n)
    \/ \E p \in 1..MaxOpens : SettingsFail(p)
    \/ ValidateTextDocument

SpecServer == InitServer /\ [][NextServer]_vars

\* C5: after a close notification was handled, and until the next open or
\* change notification, the document manager holds no controller for the URI
\* and the diagnostics last published for it are the empty list.
C5_ClosedStaysClean ==
    server.closed => (~server.held /\ server.published = Published(<<>>))

(***************************************************************************)
(* SpecCache: parse() of parser.ts and the cache of the module, on their   *)
(* own.  The run starts after the texts "00", "01", ... were parsed, one   *)
(* a millisecond, so that the cache may be empty, one short of full, or    *)
(* full.  hist is a history of the run, no field of the program:           *)
(*   origin   for every entry of the cache, in the order of the cache,     *)
(*            the text that was parsed to make it,                         *)
(*   stored   whether the last call of parse() reached cacheResult,        *)
(*   kept     the cache as cacheResult found it in that call,              *)
(*   calls, ticks   the calls of parse() and the advances of the clock.    *)
(***************************************************************************)

MaxCalls == 2
MaxCacheTicks == 1

DigitChars == <<"0", "1", "2", "3", "4", "5", "6", "7", "8", "9">>

\* The k-th text parsed before the run starts: 1 -> "00", 100 -> "99".
FillText(k) == <<DigitChars[(k - 1) \div 10 + 1], DigitChars[((k - 1) % 10) + 1]>>

\* The cache and the origins of its entries after one more call of parse().
AfterParse(cache, origin, source, time) ==
    LET key == HashSource(source)
        after == Parse(cache, source, time).cache
    IN  [cache |-> after,
         origin |-> [i \in 1..Len(after) |->
                        IF after[i].key = key /\ ~CacheHit(cache, key, time)
                        THEN source
                        ELSE origin[MapIndex(cache, after[i].key)]]]

\* The cache after parse(FillText(k)) was called at time k - 1 for k = from..n.
RECURSIVE FillFrom(_, _, _)
FillFrom(from, n, st) ==
    IF from > n \/ Len(st.cache) # Len(st.origin) THEN st
    ELSE FillFrom(from + 1, n, AfterParse(st.cache, st.origin, FillText(from), from - 1))

Filled(n) == FillFrom(1, n, [cache |-> <<>>, origin |-> <<>>])

FillSizes == {0, MAX_CACHE_SIZE - 1, MAX_CACHE_SIZE}

\* The texts parse() is called with: aB and b! have the same hash, 00 and 49
\* are in a full cache, zz is in none, and ( does not parse.
CacheTexts ==
    {<<"a", "B">>, <<"b", "!">>, <<"0", "0">>, <<"4", "9">>, <<"z", "z">>, <<"(">>}

TickAmounts == {1, MAX_CACHE_AGE_MS}

cacheIdle == <<version, content, lineOffsets, dirty, ast, parseError, symbolTable,
               astIndex, server>>

InitCache ==
    /\ \E n \in FillSizes :
          /\ parseCache = Filled(n).cache
          /\ hist = [origin |-> Filled(n).origin, stored |-> FALSE, kept |-> <<>>,
                     calls |-> 0, ticks |-> 0]
          /\ now = n
    /\ version = 0 /\ content = Idle /\ lineOffsets = Idle /\ dirty = Idle
    /\ ast = Idle /\ parseError = Idle /\ symbolTable = Idle /\ astIndex = Idle
    /\ server = Idle
    /\ lastOp = [op |-> "new", arg |-> <<>>, ret |-> 0]

\* parse(source)
ParseCall(source) ==
    /\ hist.calls < MaxCalls
    /\ LET key == HashSource(source)
           hit == CacheHit(parseCache, key, now)
           result == Parse(parseCache, source, now)
           stored == ~hit /\ result.thrown = <<>>
       IN  /\ parseCache' = result.cache
           /\ lastOp' = [op |-> "parse", arg |-> source,
                         ret |-> [hit |-> hit, thrown |-> result.thrown,
                                  ast |-> result.ast]]
           /\ hist' = [origin |-> AfterParse(parseCache, hist.origin, source, now).origin,
                       stored |-> stored,
                       kept |-> IF stored THEN MapDelete(parseCache, key) ELSE <<>>,
                       calls |-> hist.calls + 1,
                       ticks |-> hist.ticks]
    /\ UNCHANGED now
    /\ UNCHANGED cacheIdle

\* Date.now() advances.
CacheTick(ms) ==
    /\ hist.ticks < MaxCacheTicks
    /\ now' = now + ms
    /\ hist' = [hist EXCEPT !.ticks = @ + 1]
    /\ lastOp' = [op |-> "tick", arg |-> <<>>, ret |-> 0]
    /\ UNCHANGED parseCache
    /\ UNCHANGED cacheIdle

NextCache ==
    \/ \E source \in CacheTexts : ParseCall(source)
    \/ \E ms \in TickAmounts : CacheTick(ms)

SpecCache == InitCache /\ [][NextCache]_vars

\* C29: an AST that parse(source) takes from the cache was made by parsing
\* source itself: no entry of the cache serves a text other than the one it
\* was made from.
C29_CacheServesOwnText ==
    (lastOp.op = "parse" /\ lastOp.ret.hit) =>
        hist.origin[MapIndex(parseCache, HashSource(lastOp.arg))] = lastOp.arg

\* The entries cacheResult found and did not leave in the cache.
Evicted == {i \in 1..Len(hist.kept) : ~MapHas(parseCache, hist.kept[i].key)}

\* C30: the cache never holds more than MAX_CACHE_SIZE entries, and a result
\* that cacheResult stores while the cache holds MAX_CACHE_SIZE entries takes
\* the place of exactly one of them, one with the smallest timestamp; the
\* others stay as they were.
C30_CacheBounded ==
    /\ Len(parseCache) <= MAX_CACHE_SIZE
    /\ (lastOp.op = "parse" /\ hist.stored /\ Len(hist.kept) = MAX_CACHE_SIZE) =>
          /\ Cardinality(Evicted) = 1
          /\ \A i \in Evicted : \A j \in 1..Len(hist.kept) :
                hist.kept[i].value.timestamp <= hist.kept[j].value.timestamp
          /\ \A j \in 1..Len(hist.kept) :
                j \notin Evicted =>
                    MapGet(parseCache, hist.kept[j].key) = hist.kept[j].value
          /\ MapHas(parseCache, HashSource(lastOp.arg))

\* parse() of a text that was not in the full cache stored its result: the
\* oldest entry, the one of "00", is gone and the cache is full again.
C30_Witness ==
    /\ lastOp.op = "parse"
    /\ hist.stored
    /\ Len(hist.kept) = MAX_CACHE_SIZE
    /\ Len(parseCache) = MAX_CACHE_SIZE
    /\ lastOp.arg = <<"z", "z">>
    /\ ~MapHas(parseCache, HashSource(<<"0", "0">>))
    /\ MapHas(parseCache, HashSource(<<"z", "z">>))

====
